---- MODULE Spec2Model ----
(***************************************************************************)
(* Model of the realism comparator of HT00004/teamalpha                    *)
(* (src/data_realism_comparator.py): DataRealismComparator reads a CSV     *)
(* file, scores seven categories against fixed UK benchmarks and           *)
(* aggregates them into a report.                                          *)
(*                                                                         *)
(* Numbers are exact rationals [n, d] (d > 0, lowest terms); d = 0 is the  *)
(* float NaN.  A data frame column is kept run-length encoded in the file  *)
(* and expanded to one cell per row when the file is read.                 *)
(***************************************************************************)
EXTENDS Integers, Sequences, FiniteSets, TLC

\* ------------------------------------------------------------------------
\* Exact arithmetic standing for Python/numpy floats
\* ------------------------------------------------------------------------

RECURSIVE Gcd(_, _)
Gcd(a, b) == IF b = 0 THEN a ELSE Gcd(b, a % b)

AbsInt(a) == IF a < 0 THEN -a ELSE a

NaN == [n |-> 0, d |-> 0]

IsNaN(x) == x.d = 0

\* The rational n/d in lowest terms, the sign carried by the numerator.
Rat(n, d) ==
    LET s == IF d < 0 THEN -1 ELSE 1
        g == Gcd(AbsInt(n), AbsInt(d))
    IN  [n |-> (s * n) \div g, d |-> (s * d) \div g]

RatInt(n) == [n |-> n, d |-> 1]

Zero == RatInt(0)

One == RatInt(1)

RatAdd(x, y) ==
    IF IsNaN(x) \/ IsNaN(y) THEN NaN
    ELSE LET g == Gcd(x.d, y.d)
         IN  Rat(x.n * (y.d \div g) + y.n * (x.d \div g), (x.d \div g) * y.d)

RatNeg(x) == IF IsNaN(x) THEN NaN ELSE [n |-> -x.n, d |-> x.d]

RatSub(x, y) == RatAdd(x, RatNeg(y))

RatMul(x, y) ==
    IF IsNaN(x) \/ IsNaN(y) THEN NaN
    ELSE LET g1 == Gcd(AbsInt(x.n), y.d)
             g2 == Gcd(AbsInt(y.n), x.d)
         IN  Rat((x.n \div g1) * (y.n \div g2), (x.d \div g2) * (y.d \div g1))

\* x / y; numpy float division by zero gives nan (0/0) or inf, which the
\* model does not need: every divisor the comparator uses is non-zero
\* except the row total of value_counts(normalize=True), handled there.
RatDiv(x, y) ==
    IF IsNaN(x) \/ IsNaN(y) \/ y.n = 0 THEN NaN
    ELSE RatMul(x, Rat(y.d, y.n))

RatAbs(x) == IF IsNaN(x) THEN NaN ELSE [n |-> AbsInt(x.n), d |-> x.d]

\* Python comparisons: any comparison with nan is False.
RatLt(x, y) == ~IsNaN(x) /\ ~IsNaN(y) /\ x.n * y.d < y.n * x.d

RatGt(x, y) == RatLt(y, x)

RatLe(x, y) == ~IsNaN(x) /\ ~IsNaN(y) /\ x.n * y.d <= y.n * x.d

RatGe(x, y) == RatLe(y, x)

\* Python's builtin max(0, x): the first argument stays unless x > 0,
\* so max(0, nan) is 0.
PyMax0(x) == IF RatGt(x, Zero) THEN x ELSE Zero

\* The sum of f[k] over the finite set S.
RECURSIVE RatSum(_, _)
RatSum(f, S) ==
    IF S = {} THEN Zero
    ELSE LET k == CHOOSE e \in S : TRUE
         IN  RatAdd(f[k], RatSum(f, S \ {k}))

\* ------------------------------------------------------------------------
\* The benchmark table (load_uk_pension_benchmarks)
\* ------------------------------------------------------------------------

load_uk_pension_benchmarks ==
    [ age_distribution |->
          ("22-29" :> Rat(20, 100)) @@ ("30-39" :> Rat(28, 100)) @@
          ("40-49" :> Rat(26, 100)) @@ ("50-59" :> Rat(20, 100)) @@
          ("60-67" :> Rat(6, 100)),
      gender_distribution |->
          ("M" :> Rat(52, 100)) @@ ("F" :> Rat(47, 100)) @@ ("O" :> Rat(1, 100)),
      sector_distribution |->
          ("Finance" :> Rat(14, 100)) @@ ("Manufacturing" :> Rat(10, 100)) @@
          ("Public Service" :> Rat(19, 100)) @@ ("Healthcare" :> Rat(13, 100)) @@
          ("Education" :> Rat(9, 100)) @@ ("Retail" :> Rat(11, 100)) @@
          ("Other" :> Rat(24, 100)),
      salary_ranges |->
          ("Finance" :> [min |-> 25000, max |-> 150000, median |-> 45000]) @@
          ("Manufacturing" :> [min |-> 20000, max |-> 80000, median |-> 32000]) @@
          ("Public Service" :> [min |-> 18000, max |-> 85000, median |-> 35000]) @@
          ("Healthcare" :> [min |-> 22000, max |-> 90000, median |-> 38000]) @@
          ("Education" :> [min |-> 24000, max |-> 70000, median |-> 35000]) @@
          ("Retail" :> [min |-> 18000, max |-> 55000, median |-> 26000]) @@
          ("Other" :> [min |-> 20000, max |-> 100000, median |-> 35000]),
      geographic_distribution |->
          ("London" :> Rat(22, 100)) @@ ("South East" :> Rat(18, 100)) @@
          ("North West" :> Rat(12, 100)) @@ ("West Midlands" :> Rat(9, 100)) @@
          ("Yorkshire" :> Rat(8, 100)) @@ ("Scotland" :> Rat(8, 100)) @@
          ("East" :> Rat(7, 100)) @@ ("South West" :> Rat(6, 100)) @@
          ("East Midlands" :> Rat(5, 100)) @@ ("Wales" :> Rat(3, 100)) @@
          ("North East" :> Rat(2, 100)),
      status_distribution |->
          ("Active" :> Rat(75, 100)) @@ ("Deferred" :> Rat(20, 100)) @@
          ("Pensioner" :> Rat(5, 100)),
      years_service_patterns |->
          ("0-5" :> Rat(40, 100)) @@ ("6-15" :> Rat(35, 100)) @@
          ("16-25" :> Rat(15, 100)) @@ ("26-35" :> Rat(8, 100)) @@
          ("36+" :> Rat(2, 100)) ]

\* self.uk_benchmarks, the table every comparator reads.
VARIABLE uk_benchmarks

\* ------------------------------------------------------------------------
\* CSV cells and data frames
\* ------------------------------------------------------------------------
\* A cell is a number, an empty field (read as NaN) or a string.  A
\* postcode string is held as its pieces between spaces, so that
\* str.split(' ') is the identity on the representation and str[0] takes
\* the first piece.

Num(v) == [k |-> "num", v |-> v, s |-> "", p |-> <<>>]

NaNCell == [k |-> "nan", v |-> 0, s |-> "", p |-> <<>>]

Str(s) == [k |-> "str", v |-> 0, s |-> s, p |-> <<>>]

Post(p) == [k |-> "str", v |-> 0, s |-> "", p |-> p]

isna(c) == c.k = "nan"

\* A run of n equal cells.
Run(c, n) == [c |-> c, n |-> n]

\* The cells of a run-length encoded column, one per row.
RECURSIVE Expand(_)
Expand(rle) ==
    IF rle = <<>> THEN <<>>
    ELSE [i \in 1..Head(rle).n |-> Head(rle).c] \o Expand(Tail(rle))

\* read_csv gives a column the object dtype, every value a str, as soon as
\* one field of it is not a number.
IsObject(col) == \E i \in DOMAIN col : col[i].k = "str"

\* A salary written with a currency symbol and thousands separators, such
\* as "£45,000": a string whose amount is v.
Money(v) == [k |-> "str", v |-> v, s |-> "£#,###", p |-> <<>>]

Range(seq) == {seq[i] : i \in DOMAIN seq}

\* A data frame: the column names in file order, the labels of the rows
\* kept so far, each column's cells by row label, and each column's dtype.
\* df[name] = value: a new column goes last, an existing one is replaced.
SetColumn(df, name, cells, dtype) ==
    [ columns |-> IF name \in Range(df.columns) THEN df.columns
                  ELSE Append(df.columns, name),
      index   |-> df.index,
      col     |-> (name :> cells) @@ df.col,
      dtype   |-> (name :> dtype) @@ df.dtype ]

\* pd.read_csv of a readable file.
read_csv(file) ==
    LET names == Range(file.columns)
        cells == [c \in names |-> Expand(file.data[c])]
    IN  [ columns |-> file.columns,
          index   |-> IF file.columns = <<>> THEN {}
                      ELSE DOMAIN cells[file.columns[1]],
          col     |-> cells,
          dtype   |-> [c \in names |->
                         IF IsObject(cells[c]) THEN "object" ELSE "number"] ]

\* .astype(str).str.replace('£', '').str.replace(',', '') followed by
\* pd.to_numeric(errors='coerce'): a number stays, a currency-formatted
\* amount becomes its number, any other text (and 'nan') becomes NaN.
to_numeric_coerce(c) ==
    IF c.k = "num" THEN c
    ELSE IF c.k = "str" /\ c.s = "£#,###" THEN Num(c.v)
    ELSE NaNCell

\* df.dropna(subset=...): the rows with no NaN in the subset's columns.
dropna(df, subset) ==
    [df EXCEPT !.index =
        {i \in df.index : \A c \in subset : ~isna(df.col[c][i])}]

\* The first column of the file among the accepted names, or "" (None).
RECURSIVE FindColumn(_, _)
FindColumn(names, df) ==
    IF names = <<>> THEN ""
    ELSE IF Head(names) \in Range(df.columns) THEN Head(names)
    ELSE FindColumn(Tail(names), df)

\* value_counts with normalize=True forgotten: the counts, not the shares.
value_counts_unnormalised(df, cells) ==
    LET rows == {i \in df.index : ~isna(cells[i])}
        keys == {cells[i].s : i \in rows}
    IN  [k \in keys |-> RatInt(Cardinality({i \in rows : cells[i].s = k}))]

\* Series.value_counts(normalize=True).to_dict() of an object column: the
\* values present (NaN left out), each with its share of the non-NaN rows.
value_counts(df, cells) ==
    LET rows == {i \in df.index : ~isna(cells[i])}
        keys == {cells[i].s : i \in rows}
    IN  [k \in keys |->
           Rat(Cardinality({i \in rows : cells[i].s = k}), Cardinality(rows))]

\* The same of a categorical column (the result of pd.cut): every label is
\* a key, and with no row in any bin each share is 0/0 = nan.
value_counts_categorical(df, cells, labels) ==
    LET rows == {i \in df.index : ~isna(cells[i])}
    IN  [k \in Range(labels) |->
           IF rows = {} THEN NaN
           ELSE Rat(Cardinality({i \in rows : cells[i].s = k}), Cardinality(rows))]

\* dict.get(key, 0)
DictGet(d, key) == IF key \in DOMAIN d THEN d[key] ELSE Zero

\* pd.cut(x, bins, labels, include_lowest=True) of one value: the label of
\* the interval (bins[j], bins[j+1]] holding it, the first interval closed
\* on the left as well; NaN when no interval holds it.
pd_cut(c, bins, labels) ==
    IF c.k # "num" THEN NaNCell
    ELSE LET hit == {j \in 1..(Len(bins) - 1) :
                        /\ (bins[j] < c.v \/ (j = 1 /\ bins[j] = c.v))
                        /\ c.v <= bins[j + 1]}
         IN  IF hit = {} THEN NaNCell
             ELSE Str(labels[CHOOSE j \in hit : TRUE])

\* Differences with the abs() forgotten.
Differences_signed(synthetic_dist, real_dist, buckets) ==
    [b \in buckets |->
       LET synthetic_pct == DictGet(synthetic_dist, b)
           real_pct == real_dist[b]
           diff == RatSub(synthetic_pct, real_pct)
       IN  [ synthetic |-> synthetic_pct,
             real |-> real_pct,
             difference |-> diff,
             percentage_error |->
                 IF RatGt(real_pct, Zero)
                 THEN RatMul(RatDiv(diff, real_pct), RatInt(100))
                 ELSE Zero ]]

\* The per-bucket comparison every categorical comparator builds, and the
\* sum of the differences over the buckets it loops over.
Differences(synthetic_dist, real_dist, buckets) ==
    [b \in buckets |->
       LET synthetic_pct == DictGet(synthetic_dist, b)
           real_pct == real_dist[b]
           diff == RatAbs(RatSub(synthetic_pct, real_pct))
       IN  [ synthetic |-> synthetic_pct,
             real |-> real_pct,
             difference |-> diff,
             percentage_error |->
                 IF RatGt(real_pct, Zero)
                 THEN RatMul(RatDiv(diff, real_pct), RatInt(100))
                 ELSE Zero ]]

TotalDiff(differences) ==
    RatSum([b \in DOMAIN differences |-> differences[b].difference],
           DOMAIN differences)

\* The score with the closing parenthesis misplaced: max(0, 1 - total_diff) / 2.
HalfDiffScore_misparenthesised(total_diff) ==
    RatDiv(PyMax0(RatSub(One, total_diff)), RatInt(2))

\* accuracy_score = max(0, 1 - (total_diff / 2))
HalfDiffScore(total_diff) ==
    PyMax0(RatSub(One, RatDiv(total_diff, RatInt(2))))

\* The result with the pass test written >= instead of >.
CategoryResult_inclusive(differences, accuracy_score, text, threshold) ==
    [ accuracy_score |-> accuracy_score,
      distributions |-> differences,
      summary |-> <<text, accuracy_score>>,
      passes_test |-> RatGe(accuracy_score, threshold) ]

\* The result of a categorical comparator that found its column.
CategoryResult(differences, accuracy_score, text, threshold) ==
    [ accuracy_score |-> accuracy_score,
      distributions |-> differences,
      summary |-> <<text, accuracy_score>>,
      passes_test |-> RatGt(accuracy_score, threshold) ]

\* The not-found result without its "error" key.
NotFoundResult_unmarked(what) ==
    [ accuracy_score |-> Zero,
      distributions |-> <<>>,
      summary |-> <<what \o " column not found in data">>,
      passes_test |-> FALSE ]

\* The result of a categorical comparator that found no column.
NotFoundResult(what) ==
    [ accuracy_score |-> Zero,
      distributions |-> <<>>,
      summary |-> <<what \o " column not found in data">>,
      passes_test |-> FALSE,
      error |-> what \o " column not found" ]

\* ------------------------------------------------------------------------
\* The category comparators
\* ------------------------------------------------------------------------

AgeBins == <<21, 29, 39, 49, 59, 68>>

AgeLabels == <<"22-29", "30-39", "40-49", "50-59", "60-67">>

age_column(df) == FindColumn(<<"Age", "age", "Age_Years", "member_age">>, df)

\* pd.cut of a column of strings raises TypeError.
age_raises(df) ==
    age_column(df) # "" /\ df.dtype[age_column(df)] = "object"

age_bin(df) ==
    LET cells == df.col[age_column(df)]
    IN  [i \in DOMAIN cells |-> pd_cut(cells[i], AgeBins, AgeLabels)]

\* The data frame as compare_age_distribution leaves it.
age_df(df) ==
    IF age_column(df) = "" THEN df
    ELSE SetColumn(df, "age_bin", age_bin(df), "category")

compare_age_distribution(df) ==
    IF age_column(df) = "" THEN NotFoundResult("Age")
    ELSE LET synthetic_dist == value_counts_categorical(df, age_bin(df), AgeLabels)
             real_dist == uk_benchmarks.age_distribution
             differences == Differences(synthetic_dist, real_dist, DOMAIN real_dist)
             accuracy_score == HalfDiffScore(TotalDiff(differences))
         IN  CategoryResult(differences, accuracy_score,
                            "Age distribution accuracy: ", Rat(8, 10))

gender_column(df) == FindColumn(<<"Gender", "gender", "Gender_Code", "sex">>, df)

compare_gender_distribution(df) ==
    IF gender_column(df) = "" THEN NotFoundResult("Gender")
    ELSE LET synthetic_dist == value_counts(df, df.col[gender_column(df)])
             real_dist == uk_benchmarks.gender_distribution
             differences == Differences(synthetic_dist, real_dist, DOMAIN real_dist)
             accuracy_score == HalfDiffScore(TotalDiff(differences))
         IN  CategoryResult(differences, accuracy_score,
                            "Gender distribution accuracy: ", Rat(9, 10))

sector_column(df) ==
    FindColumn(<<"Sector", "sector", "Industry", "employment_sector">>, df)

compare_sector_distribution(df) ==
    IF sector_column(df) = "" THEN NotFoundResult("Sector")
    ELSE LET synthetic_dist == value_counts(df, df.col[sector_column(df)])
             real_dist == uk_benchmarks.sector_distribution
             differences == Differences(synthetic_dist, real_dist, DOMAIN real_dist)
             accuracy_score == HalfDiffScore(TotalDiff(differences))
         IN  CategoryResult(differences, accuracy_score,
                            "Sector distribution accuracy: ", Rat(7, 10))

status_column(df) ==
    FindColumn(<<"Status", "status", "Member_Status", "member_status">>, df)

compare_status_distribution(df) ==
    IF status_column(df) = "" THEN NotFoundResult("Status")
    ELSE LET synthetic_dist == value_counts(df, df.col[status_column(df)])
             real_dist == uk_benchmarks.status_distribution
             differences == Differences(synthetic_dist, real_dist, DOMAIN real_dist)
             accuracy_score == HalfDiffScore(TotalDiff(differences))
         IN  CategoryResult(differences, accuracy_score,
                            "Status distribution accuracy: ", Rat(8, 10))

ServiceBins == <<0, 5, 15, 25, 35, 50>>

ServiceLabels == <<"0-5", "6-15", "16-25", "26-35", "36+">>

service_column(df) ==
    FindColumn(<<"YearsService", "years_service", "Years_Service", "service_years">>, df)

service_raises(df) ==
    service_column(df) # "" /\ df.dtype[service_column(df)] = "object"

service_bin(df) ==
    LET cells == df.col[service_column(df)]
    IN  [i \in DOMAIN cells |-> pd_cut(cells[i], ServiceBins, ServiceLabels)]

service_df(df) ==
    IF service_column(df) = "" THEN df
    ELSE SetColumn(df, "service_bin", service_bin(df), "category")

compare_service_patterns(df) ==
    IF service_column(df) = "" THEN NotFoundResult("Years of service")
    ELSE LET synthetic_dist == value_counts_categorical(df, service_bin(df), ServiceLabels)
             real_dist == uk_benchmarks.years_service_patterns
             differences == Differences(synthetic_dist, real_dist, DOMAIN real_dist)
             accuracy_score == HalfDiffScore(TotalDiff(differences))
         IN  CategoryResult(differences, accuracy_score,
                            "Service patterns accuracy: ", Rat(7, 10))

salary_column(df) ==
    FindColumn(<<"AnnualSalary", "annual_salary", "Salary", "salary", "Annual_Salary">>, df)

\* The rows of the frame whose sector cell equals the sector.
sector_rows(df, sector) ==
    LET cells == df.col[sector_column(df)]
    IN  {i \in df.index : cells[i].k = "str" /\ cells[i].s = sector}

\* Series.median(), .min() and .max() skip NaN and give NaN for no value.
NumericRows(df, rows, column) ==
    LET cells == df.col[column]
    IN  {i \in rows : cells[i].k = "num"}

\* The k-th smallest value of the column over the rows.
KthSmallest(df, rows, column, k) ==
    LET cells == df.col[column]
    IN  CHOOSE x \in {cells[i].v : i \in rows} :
            /\ Cardinality({i \in rows : cells[i].v < x}) < k
            /\ k <= Cardinality({i \in rows : cells[i].v <= x})

series_median(df, rows, column) ==
    LET num == NumericRows(df, rows, column)
        m == Cardinality(num)
    IN  IF m = 0 THEN NaN
        ELSE IF m % 2 = 1 THEN RatInt(KthSmallest(df, num, column, (m + 1) \div 2))
        ELSE Rat(KthSmallest(df, num, column, m \div 2)
                 + KthSmallest(df, num, column, m \div 2 + 1), 2)

series_min(df, rows, column) ==
    LET num == NumericRows(df, rows, column)
    IN  IF num = {} THEN NaN ELSE RatInt(KthSmallest(df, num, column, 1))

series_max(df, rows, column) ==
    LET num == NumericRows(df, rows, column)
    IN  IF num = {} THEN NaN
        ELSE RatInt(KthSmallest(df, num, column, Cardinality(num)))

\* median() of a column of strings raises TypeError; it is called for a
\* benchmark sector that has rows.
salary_raises(df) ==
    /\ salary_column(df) # "" /\ sector_column(df) # ""
    /\ df.dtype[salary_column(df)] = "object"
    /\ \E sector \in DOMAIN uk_benchmarks.salary_ranges : sector_rows(df, sector) # {}

\* The sector accuracy with the abs() of the median error forgotten.
sector_accuracy_signed(df, sector) ==
    LET rows == sector_rows(df, sector)
        real_ranges == uk_benchmarks.salary_ranges[sector]
        synthetic_median == series_median(df, rows, salary_column(df))
        synthetic_min == series_min(df, rows, salary_column(df))
        synthetic_max == series_max(df, rows, salary_column(df))
        median_accuracy ==
            RatSub(One, RatDiv(RatSub(synthetic_median, RatInt(real_ranges.median)),
                               RatInt(real_ranges.median)))
        range_accuracy ==
            RatSub(One,
                   RatDiv(RatAdd(RatDiv(RatAbs(RatSub(synthetic_min, RatInt(real_ranges.min))),
                                        RatInt(real_ranges.min)),
                                 RatDiv(RatAbs(RatSub(synthetic_max, RatInt(real_ranges.max))),
                                        RatInt(real_ranges.max))),
                          RatInt(2)))
    IN  RatDiv(RatAdd(median_accuracy, range_accuracy), RatInt(2))

\* The body of the loop over the benchmark sectors, for a sector with rows:
\* the raw sector_accuracy and the entry stored in sector_salary_analysis.
sector_accuracy(df, sector) ==
    LET rows == sector_rows(df, sector)
        real_ranges == uk_benchmarks.salary_ranges[sector]
        synthetic_median == series_median(df, rows, salary_column(df))
        synthetic_min == series_min(df, rows, salary_column(df))
        synthetic_max == series_max(df, rows, salary_column(df))
        median_accuracy ==
            RatSub(One, RatDiv(RatAbs(RatSub(synthetic_median, RatInt(real_ranges.median))),
                               RatInt(real_ranges.median)))
        range_accuracy ==
            RatSub(One,
                   RatDiv(RatAdd(RatDiv(RatAbs(RatSub(synthetic_min, RatInt(real_ranges.min))),
                                        RatInt(real_ranges.min)),
                                 RatDiv(RatAbs(RatSub(synthetic_max, RatInt(real_ranges.max))),
                                        RatInt(real_ranges.max))),
                          RatInt(2)))
    IN  RatDiv(RatAdd(median_accuracy, range_accuracy), RatInt(2))

\* The entry with the raw sector accuracy stored, the max(0, ...) forgotten.
sector_entry_unclamped(df, sector) ==
    LET rows == sector_rows(df, sector)
        real_ranges == uk_benchmarks.salary_ranges[sector]
        synthetic_median == series_median(df, rows, salary_column(df))
        raw == sector_accuracy(df, sector)
    IN  [ synthetic_median |-> synthetic_median,
          real_median |-> real_ranges.median,
          synthetic_range |-> <<series_min(df, rows, salary_column(df)),
                                series_max(df, rows, salary_column(df))>>,
          real_range |-> <<real_ranges.min, real_ranges.max>>,
          accuracy_score |-> raw,
          median_difference |->
              RatAbs(RatSub(synthetic_median, RatInt(real_ranges.median))),
          passes_test |-> RatGt(raw, Rat(7, 10)) ]

sector_entry(df, sector) ==
    LET rows == sector_rows(df, sector)
        real_ranges == uk_benchmarks.salary_ranges[sector]
        synthetic_median == series_median(df, rows, salary_column(df))
        raw == sector_accuracy(df, sector)
    IN  [ synthetic_median |-> synthetic_median,
          real_median |-> real_ranges.median,
          synthetic_range |-> <<series_min(df, rows, salary_column(df)),
                                series_max(df, rows, salary_column(df))>>,
          real_range |-> <<real_ranges.min, real_ranges.max>>,
          accuracy_score |-> PyMax0(raw),
          median_difference |->
              RatAbs(RatSub(synthetic_median, RatInt(real_ranges.median))),
          passes_test |-> RatGt(raw, Rat(7, 10)) ]

compare_salary_patterns(df) ==
    IF salary_column(df) = "" \/ sector_column(df) = ""
    THEN [ overall_accuracy |-> Zero,
           sector_analysis |-> <<>>,
           summary |-> <<"Required columns not found", salary_column(df), sector_column(df)>>,
           passes_test |-> FALSE,
           error |-> "Salary or sector column not found" ]
    ELSE LET present == {sector \in DOMAIN uk_benchmarks.salary_ranges :
                            sector_rows(df, sector) # {}}
             sector_salary_analysis == [sector \in present |-> sector_entry(df, sector)]
             overall_accuracy ==
                 RatDiv(RatSum([sector \in present |-> sector_accuracy(df, sector)],
                               present),
                        RatInt(Cardinality(DOMAIN uk_benchmarks.salary_ranges)))
         IN  [ overall_accuracy |-> PyMax0(overall_accuracy),
               sector_analysis |-> sector_salary_analysis,
               summary |-> <<"Salary pattern accuracy: ", overall_accuracy>>,
               passes_test |-> RatGt(overall_accuracy, Rat(7, 10)) ]

postcode_column(df) ==
    FindColumn(<<"Postcode", "postcode", "PostCode", "postal_code">>, df)

postcode_to_region ==
    ("EC1" :> "London") @@ ("SW1" :> "London") @@ ("W1A" :> "London") @@
    ("E1" :> "London") @@ ("N1" :> "London") @@
    ("M1" :> "North West") @@ ("M2" :> "North West") @@ ("M3" :> "North West") @@
    ("B1" :> "West Midlands") @@ ("B2" :> "West Midlands") @@ ("B3" :> "West Midlands") @@
    ("G1" :> "Scotland") @@ ("G2" :> "Scotland") @@
    ("EH1" :> "Scotland") @@ ("EH2" :> "Scotland") @@
    ("CF10" :> "Wales") @@ ("CF11" :> "Wales") @@
    ("L1" :> "North West") @@ ("L2" :> "North West") @@
    ("LS1" :> "Yorkshire") @@ ("LS2" :> "Yorkshire") @@
    ("BS1" :> "South West") @@ ("BS2" :> "South West")

\* The comparator without its guard for a missing column: df[None] raises.
geographic_raises_unguarded(df) ==
    postcode_column(df) = "" \/ df.dtype[postcode_column(df)] # "object"

\* The .str accessor of a column that is not of strings (every field
\* empty, or every field a number) raises AttributeError.
geographic_raises(df) ==
    postcode_column(df) # "" /\ df.dtype[postcode_column(df)] # "object"

\* df[postcode_column].str.split(' ').str[0]
postcode_area(df) ==
    LET cells == df.col[postcode_column(df)]
    IN  [i \in DOMAIN cells |->
            IF cells[i].k # "str" THEN NaNCell
            ELSE IF cells[i].p = <<>> THEN Str("") ELSE Str(cells[i].p[1])]

\* The mapping with the unmapped areas kept as a region of their own
\* (.map(...).fillna('Unknown')).
region_unknown(df) ==
    LET area == postcode_area(df)
    IN  [i \in DOMAIN area |->
            IF area[i].k # "str" THEN NaNCell
            ELSE IF area[i].s \in DOMAIN postcode_to_region
            THEN Str(postcode_to_region[area[i].s]) ELSE Str("Unknown")]

\* df['postcode_area'].map(postcode_to_region)
region(df) ==
    LET area == postcode_area(df)
    IN  [i \in DOMAIN area |->
            IF area[i].k = "str" /\ area[i].s \in DOMAIN postcode_to_region
            THEN Str(postcode_to_region[area[i].s]) ELSE NaNCell]

geographic_df(df) ==
    IF postcode_column(df) = "" THEN df
    ELSE SetColumn(SetColumn(df, "postcode_area", postcode_area(df), "object"),
                   "region", region(df), "object")

\* The comparator scoring geography as the other categories are scored:
\* over every benchmark region, the total difference halved.
compare_geographic_distribution_halved(df) ==
    IF postcode_column(df) = ""
    THEN [ accuracy_score |-> Zero,
           distributions |-> <<>>,
           summary |-> <<"Postcode column not found in data">>,
           passes_test |-> FALSE,
           regions_covered |-> 0,
           error |-> "Postcode column not found" ]
    ELSE LET synthetic_dist == value_counts(df, region(df))
             real_dist == uk_benchmarks.geographic_distribution
             differences == Differences(synthetic_dist, real_dist, DOMAIN real_dist)
             accuracy_score == HalfDiffScore(TotalDiff(differences))
         IN  [ accuracy_score |-> accuracy_score,
               distributions |-> differences,
               summary |-> <<"Geographic distribution accuracy: ", accuracy_score>>,
               passes_test |-> RatGt(accuracy_score, Rat(6, 10)),
               regions_covered |-> Cardinality(DOMAIN real_dist) ]

compare_geographic_distribution(df) ==
    IF postcode_column(df) = ""
    THEN [ accuracy_score |-> Zero,
           distributions |-> <<>>,
           summary |-> <<"Postcode column not found in data">>,
           passes_test |-> FALSE,
           regions_covered |-> 0,
           error |-> "Postcode column not found" ]
    ELSE LET synthetic_dist == value_counts(df, region(df))
             real_dist == uk_benchmarks.geographic_distribution
             common_regions == DOMAIN synthetic_dist \cap DOMAIN real_dist
             differences == Differences(synthetic_dist, real_dist, common_regions)
             accuracy_score ==
                 IF common_regions # {}
                 THEN PyMax0(RatSub(One, RatDiv(TotalDiff(differences),
                                                RatInt(Cardinality(common_regions)))))
                 ELSE Zero
         IN  [ accuracy_score |-> accuracy_score,
               distributions |-> differences,
               summary |-> <<"Geographic distribution accuracy: ", accuracy_score>>,
               passes_test |-> RatGt(accuracy_score, Rat(6, 10)),
               regions_covered |-> Cardinality(common_regions) ]

\* ------------------------------------------------------------------------
\* Aggregation
\* ------------------------------------------------------------------------

\* The weights with the years of service given a weight as well.
weights_with_service ==
    ("age" :> Rat(20, 100)) @@ ("gender" :> Rat(15, 100)) @@
    ("sector" :> Rat(20, 100)) @@ ("salary" :> Rat(25, 100)) @@
    ("geographic" :> Rat(10, 100)) @@ ("status" :> Rat(10, 100)) @@
    ("service" :> Rat(10, 100))

weights ==
    ("age" :> Rat(20, 100)) @@ ("gender" :> Rat(15, 100)) @@
    ("sector" :> Rat(20, 100)) @@ ("salary" :> Rat(25, 100)) @@
    ("geographic" :> Rat(10, 100)) @@ ("status" :> Rat(10, 100))

\* The weighted categories the loop of calculate_overall_realism_score
\* counts: in the comparisons, with an "accuracy_score" key.
Counted(comparisons) ==
    {category \in DOMAIN weights :
        /\ category \in DOMAIN comparisons
        /\ "accuracy_score" \in DOMAIN comparisons[category]}

calculate_overall_realism_score(comparisons) ==
    LET counted == Counted(comparisons)
        total_score ==
            RatSum([c \in counted |->
                      RatMul(comparisons[c].accuracy_score, weights[c])], counted)
        total_weight == RatSum(weights, counted)
    IN  IF RatGt(total_weight, Zero) THEN RatDiv(total_score, total_weight) ELSE Zero

\* The order in which compare_synthetic_vs_real fills detailed_comparisons,
\* which is the order a dict is iterated in.
CategoryOrder ==
    <<"age", "gender", "sector", "salary", "geographic", "status", "service">>

Recommendation(category, accuracy) ==
    [ category |-> category,
      band |-> IF RatLt(accuracy, Rat(6, 10)) THEN "needs significant improvement"
               ELSE IF RatLt(accuracy, Rat(8, 10)) THEN "could be improved"
               ELSE "is realistic",
      accuracy |-> accuracy ]

RECURSIVE RecommendationsFrom(_, _)
RecommendationsFrom(order, comparisons) ==
    IF order = <<>> THEN <<>>
    ELSE LET category == Head(order)
             rest == RecommendationsFrom(Tail(order), comparisons)
         IN  IF /\ category \in DOMAIN comparisons
                /\ "accuracy_score" \in DOMAIN comparisons[category]
             THEN <<Recommendation(category, comparisons[category].accuracy_score)>> \o rest
             ELSE rest

generate_recommendations(comparisons) == RecommendationsFrom(CategoryOrder, comparisons)

\* ------------------------------------------------------------------------
\* compare_synthetic_vs_real
\* ------------------------------------------------------------------------

\* Lines 128-134: the AnnualSalary column made numeric, then the rows with
\* a NaN in Age, Gender or Sector dropped (in the first three columns when
\* one of those three is not a column).
CleanSalary(df) ==
    IF "AnnualSalary" \in Range(df.columns)
    THEN SetColumn(df, "AnnualSalary",
                   [i \in DOMAIN df.col["AnnualSalary"] |->
                       to_numeric_coerce(df.col["AnnualSalary"][i])],
                   "number")
    ELSE df

DropSubset(df) ==
    IF {"Age", "Gender", "Sector"} \subseteq Range(df.columns)
    THEN {"Age", "Gender", "Sector"}
    ELSE {df.columns[j] : j \in DOMAIN df.columns \cap 1..3}

LoadedFrame(file) ==
    LET df == CleanSalary(read_csv(file))
    IN  dropna(df, DropSubset(df))

\* The exception a comparator raises on the frame, "" when none does.  The
\* comparators run in the order age, gender, sector, salary, geographic,
\* status, service; the frame each one adds columns to is passed on.
RaisedBy(df) ==
    IF age_raises(df) THEN "TypeError (pd.cut of the age column)"
    ELSE IF salary_raises(age_df(df)) THEN "TypeError (median of the salary column)"
    ELSE IF geographic_raises(age_df(df)) THEN "AttributeError (.str of the postcode column)"
    ELSE IF service_raises(geographic_df(age_df(df)))
         THEN "TypeError (pd.cut of the years of service column)"
    ELSE ""

detailed_comparisons(df) ==
    LET df1 == age_df(df)
        df2 == geographic_df(df1)
    IN  ("age" :> compare_age_distribution(df)) @@
        ("gender" :> compare_gender_distribution(df1)) @@
        ("sector" :> compare_sector_distribution(df1)) @@
        ("salary" :> compare_salary_patterns(df1)) @@
        ("geographic" :> compare_geographic_distribution(df1)) @@
        ("status" :> compare_status_distribution(df2)) @@
        ("service" :> compare_service_patterns(df2))

\* The report built once the file is loaded (lines 136-186).
Report(df) ==
    LET detailed == detailed_comparisons(df)
    IN  [ overall_realism_score |-> calculate_overall_realism_score(detailed),
          detailed_comparisons |-> detailed,
          recommendations |-> generate_recommendations(detailed),
          data_quality_metrics |-> <<>>,
          statistical_tests |-> <<>> ]

\* The handler returning the initialised results along with the error.
compare_synthetic_vs_real_partial(file) ==
    IF ~file.readable
    THEN [ error |-> "Could not load CSV file",
           overall_realism_score |-> Zero,
           detailed_comparisons |-> <<>>,
           recommendations |-> <<>>,
           data_quality_metrics |-> <<>>,
           statistical_tests |-> <<>> ]
    ELSE LET df == LoadedFrame(file)
         IN  IF RaisedBy(df) # "" THEN [error |-> RaisedBy(df)] ELSE Report(df)

\* The value compare_synthetic_vs_real returns for the file at the path:
\* the report, or only {"error": str(e)} when reading the file or a
\* comparator raised.
compare_synthetic_vs_real(file) ==
    IF ~file.readable THEN [error |-> "Could not load CSV file"]
    ELSE LET df == LoadedFrame(file)
         IN  IF RaisedBy(df) # "" THEN [error |-> RaisedBy(df)] ELSE Report(df)

\* ------------------------------------------------------------------------
\* The input files
\* ------------------------------------------------------------------------
\* The header the generators ask for (JobGrade, which the comparator never
\* reads, left out).
FileHeader ==
    <<"MemberID", "Age", "Gender", "Postcode", "Sector", "AnnualSalary",
      "YearsService", "Status">>

DataColumns == Range(FileHeader) \ {"MemberID"}

\* The columns each file is put together from, run-length encoded, 100 rows
\* each.  The first of every list follows the benchmark; the others are the
\* ways a generated file departs from it.
Profiles ==
    [ MemberID |-> << <<Run(Str("MB"), 100)>> >>,
      Age |-> <<
        <<Run(Num(25), 20), Run(Num(35), 28), Run(Num(45), 26), Run(Num(55), 20),
          Run(Num(63), 6)>>,
        <<Run(Num(25), 50), Run(Num(33), 50)>>,
        <<Run(Num(25), 20), Run(Num(35), 28), Run(Num(45), 2), Run(NaNCell, 50)>>,
        <<Run(Num(25), 20), Run(Num(35), 28), Run(Num(45), 26), Run(Num(55), 20),
          Run(Num(63), 5), Run(Str("unknown"), 1)>>,
        <<Run(Num(21), 10), Run(Num(22), 10), Run(Num(35), 28), Run(Num(45), 26),
          Run(Num(55), 20), Run(Num(68), 3), Run(Num(69), 3)>>,
        <<Run(Num(70), 100)>> >>,
      Gender |-> <<
        <<Run(Str("M"), 52), Run(Str("F"), 47), Run(Str("O"), 1)>>,
        <<Run(Str("M"), 100)>>,
        <<Run(Str("M"), 49), Run(Str("F"), 50), Run(Str("O"), 1)>>,
        <<Run(NaNCell, 100)>>,
        <<Run(Str("M"), 62), Run(Str("F"), 37), Run(Str("O"), 1)>> >>,
      Sector |-> <<
        <<Run(Str("Finance"), 14), Run(Str("Manufacturing"), 10),
          Run(Str("Public Service"), 19), Run(Str("Healthcare"), 13),
          Run(Str("Education"), 9), Run(Str("Retail"), 11), Run(Str("Other"), 24)>>,
        <<Run(Str("Finance"), 100)>>,
        <<Run(Str("Mining"), 100)>>,
        <<Run(Str("Finance"), 14), Run(Str("Manufacturing"), 10),
          Run(Str("Public Service"), 19), Run(Str("Healthcare"), 7),
          Run(NaNCell, 50)>> >>,
      AnnualSalary |-> <<
        <<Run(Num(25000), 1), Run(Num(45000), 12), Run(Num(150000), 1),
          Run(Num(20000), 1), Run(Num(32000), 8), Run(Num(80000), 1),
          Run(Num(18000), 1), Run(Num(35000), 17), Run(Num(85000), 1),
          Run(Num(22000), 1), Run(Num(38000), 11), Run(Num(90000), 1),
          Run(Num(24000), 1), Run(Num(35000), 7), Run(Num(70000), 1),
          Run(Num(18000), 1), Run(Num(26000), 9), Run(Num(55000), 1),
          Run(Num(20000), 1), Run(Num(35000), 22), Run(Num(100000), 1)>>,
        <<Run(Num(1000000), 14),
          Run(Num(20000), 1), Run(Num(32000), 8), Run(Num(80000), 1),
          Run(Num(18000), 1), Run(Num(35000), 17), Run(Num(85000), 1),
          Run(Num(22000), 1), Run(Num(38000), 11), Run(Num(90000), 1),
          Run(Num(24000), 1), Run(Num(35000), 7), Run(Num(70000), 1),
          Run(Num(18000), 1), Run(Num(26000), 9), Run(Num(55000), 1),
          Run(Num(20000), 1), Run(Num(35000), 22), Run(Num(100000), 1)>>,
        <<Run(Num(25000), 1), Run(Money(45000), 5), Run(Str("n/a"), 1),
          Run(Num(45000), 6), Run(Num(150000), 1),
          Run(Num(20000), 1), Run(Num(32000), 8), Run(Num(80000), 1),
          Run(Num(18000), 1), Run(Num(35000), 17), Run(Num(85000), 1),
          Run(Num(22000), 1), Run(Num(38000), 11), Run(Num(90000), 1),
          Run(Num(24000), 1), Run(Num(35000), 7), Run(Num(70000), 1),
          Run(Num(18000), 1), Run(Num(26000), 9), Run(Num(55000), 1),
          Run(Num(20000), 1), Run(Num(35000), 22), Run(Num(100000), 1)>>,
        <<Run(NaNCell, 100)>>,
        <<Run(Num(25000), 1), Run(Num(40000), 12), Run(Num(150000), 1),
          Run(Num(20000), 1), Run(Num(32000), 8), Run(Num(80000), 1),
          Run(Num(18000), 1), Run(Num(35000), 17), Run(Num(85000), 1),
          Run(Num(22000), 1), Run(Num(38000), 11), Run(Num(90000), 1),
          Run(Num(24000), 1), Run(Num(35000), 7), Run(Num(70000), 1),
          Run(Num(18000), 1), Run(Num(26000), 9), Run(Num(55000), 1),
          Run(Num(20000), 1), Run(Num(35000), 22), Run(Num(100000), 1)>> >>,
      Postcode |-> <<
        <<Run(Post(<<"EC1", "1AA">>), 32), Run(Post(<<"M1", "2BB">>), 18),
          Run(Post(<<"B1", "3CC">>), 13), Run(Post(<<"G1", "4DD">>), 12),
          Run(Post(<<"CF10", "5EE">>), 4), Run(Post(<<"LS1", "6FF">>), 12),
          Run(Post(<<"BS1", "7GG">>), 9)>>,
        <<Run(Post(<<"SW1", "1AA">>), 100)>>,
        <<Run(Post(<<"CF11", "5EE">>), 50), Run(Post(<<"BS2", "7GG">>), 50)>>,
        <<Run(Post(<<"EC1", "1AA">>), 32), Run(Post(<<"M1", "2BB">>), 18),
          Run(Post(<<"ZZ9", "9ZZ">>), 20), Run(NaNCell, 5),
          Run(Post(<<"EC11AA">>), 5), Run(Post(<<"LS1", "6FF">>), 20)>>,
        <<Run(Post(<<"ZZ9", "9ZZ">>), 100)>>,
        <<Run(NaNCell, 100)>> >>,
      Status |-> <<
        <<Run(Str("Active"), 75), Run(Str("Deferred"), 20), Run(Str("Pensioner"), 5)>>,
        <<Run(Str("Active"), 100)>>,
        <<Run(NaNCell, 100)>> >>,
      YearsService |-> <<
        <<Run(Num(3), 40), Run(Num(10), 35), Run(Num(20), 15), Run(Num(30), 8),
          Run(Num(40), 2)>>,
        <<Run(Num(3), 100)>>,
        <<Run(Num(3), 40), Run(Num(10), 35), Run(Num(20), 15), Run(Num(30), 8),
          Run(Num(40), 1), Run(Str("ten"), 1)>>,
        <<Run(Num(0), 40), Run(Num(10), 35), Run(Num(20), 15), Run(Num(30), 8),
          Run(Num(50), 1), Run(Num(51), 1)>>,
        <<Run(NaNCell, 100)>> >> ]

\* How many columns may be missing from a file one of whose columns departs
\* from the benchmark (a file that follows it may lack any columns).
MaxMissing == 1

\* The file whose columns are the header's without the missing ones, each
\* column the first profile, but the profile pick.k for column pick.c.
MakeFile(missing, pick) ==
    [ readable |-> TRUE,
      columns |-> SelectSeq(FileHeader, LAMBDA c : c \notin missing),
      data |-> [c \in Range(FileHeader) \ missing |->
                  Profiles[c][IF c = pick.c THEN pick.k ELSE 1]] ]

Unreadable == [readable |-> FALSE, columns |-> <<>>, data |-> <<>>]

Departures ==
    UNION {{[c |-> c, k |-> k] : k \in 2..Len(Profiles[c])} : c \in DataColumns}

Files ==
    {Unreadable}
    \cup {MakeFile(missing, [c |-> "MemberID", k |-> 1]) : missing \in SUBSET DataColumns}
    \cup UNION {{MakeFile(missing, pick) :
                    missing \in {m \in SUBSET (DataColumns \ {pick.c}) :
                                    Cardinality(m) <= MaxMissing}} :
                pick \in Departures}

\* The files that have every column: the one that follows the benchmark
\* and one per way a column departs from it, and the unreadable one.
SessionFiles ==
    {Unreadable} \cup {MakeFile({}, pick) :
                          pick \in Departures \cup {[c |-> "MemberID", k |-> 1]}}

\* ------------------------------------------------------------------------
\* The state machine: one comparator instance and the calls made on it
\* ------------------------------------------------------------------------

VARIABLES
    file,                \* the CSV file at synthetic_data_path
    pc,                  \* "idle" before a call, "returned" after it
    returned,            \* the value the last call returned
    comparison_results,  \* self.comparison_results
    calls,               \* the number of calls made so far
    previous             \* the value the call before the last returned

\* The other programs of the repository.  Each keeps its state in one
\* record, which is <<>> in the runs of another program.
VARIABLES
    generator_v2,        \* alpha_data_generatorv2.generate_pension_data
    large_dataset,       \* alpha_data_generator.generate_large_dataset
    demo_generator,      \* streamlit_demo.DemoPensionGenerator
    validator            \* data_validator.PensionDataValidator

vars == <<uk_benchmarks, file, pc, returned, comparison_results, calls, previous,
          generator_v2, large_dataset, demo_generator, validator>>

\* The variables of the programs other than the comparator.
beside_comparator == <<generator_v2, large_dataset, demo_generator, validator>>

\* No other program is run.
OnlyComparator ==
    /\ generator_v2 = <<>>
    /\ large_dataset = <<>>
    /\ demo_generator = <<>>
    /\ validator = <<>>

\* How many calls a session makes on one instance.
MaxCalls == 2

\* __init__: uk_benchmarks = load_uk_pension_benchmarks(),
\* comparison_results = {}.
InitInstance ==
    /\ uk_benchmarks = load_uk_pension_benchmarks
    /\ pc = "idle"
    /\ returned = <<>>
    /\ comparison_results = <<>>
    /\ calls = 0
    /\ previous = <<>>

Init == file \in Files /\ InitInstance /\ OnlyComparator

\* The call answering from self.comparison_results once a report is stored.
CompareSyntheticVsReal_cached ==
    /\ pc = "idle"
    /\ \E result \in {IF comparison_results # <<>> THEN comparison_results
                       ELSE compare_synthetic_vs_real(file)} :
           /\ returned' = result
           /\ comparison_results' =
                  IF "error" \in DOMAIN result THEN comparison_results ELSE result
    /\ pc' = "returned"
    /\ calls' = calls + 1
    /\ UNCHANGED <<uk_benchmarks, file, previous>>
    /\ UNCHANGED beside_comparator

\* One call of compare_synthetic_vs_real on the file: the report is stored
\* in self.comparison_results and returned, or, when reading or comparing
\* raised, only {"error": ...} is returned.
CompareSyntheticVsReal ==
    /\ pc = "idle"
    /\ \E result \in {compare_synthetic_vs_real(file)} :
           /\ returned' = result
           /\ comparison_results' =
                  IF "error" \in DOMAIN result THEN comparison_results ELSE result
    /\ pc' = "returned"
    /\ calls' = calls + 1
    /\ UNCHANGED <<uk_benchmarks, file, previous>>
    /\ UNCHANGED beside_comparator

\* The caller names another file for the next call.
NextInput ==
    /\ pc = "returned"
    /\ calls < MaxCalls
    /\ file' \in SessionFiles
    /\ pc' = "idle"
    /\ previous' = returned
    /\ UNCHANGED <<uk_benchmarks, returned, comparison_results, calls>>
    /\ UNCHANGED beside_comparator

Next == CompareSyntheticVsReal

\* One call on any of the files.
Spec == Init /\ [][Next]_vars

SessionInit == file \in SessionFiles /\ InitInstance /\ OnlyComparator

SessionNext == CompareSyntheticVsReal \/ NextInput

\* A session of calls on the files that have every column.
SessionSpec == SessionInit /\ [][SessionNext]_vars

\* ------------------------------------------------------------------------
\* Vocabulary of the properties
\* ------------------------------------------------------------------------

Called == pc = "returned"

\* The call returned a report, not the top-level {"error": ...} result.
IsReport == Called /\ "error" \notin DOMAIN returned

Categorical == {"age", "gender", "sector", "status", "service", "geographic"}

BenchmarkOf(category) ==
    CASE category = "age" -> uk_benchmarks.age_distribution
      [] category = "gender" -> uk_benchmarks.gender_distribution
      [] category = "sector" -> uk_benchmarks.sector_distribution
      [] category = "status" -> uk_benchmarks.status_distribution
      [] category = "service" -> uk_benchmarks.years_service_patterns
      [] category = "geographic" -> uk_benchmarks.geographic_distribution

\* The accuracy value of a category's result.
Accuracy(result) ==
    IF "accuracy_score" \in DOMAIN result THEN result.accuracy_score
    ELSE result.overall_accuracy

InUnit(x) == RatGe(x, Zero) /\ RatLe(x, One)

\* The result reports, for every bucket of the benchmark, an observed
\* fraction equal to the expected one.
MatchesBenchmark(category, result) ==
    /\ "error" \notin DOMAIN result
    /\ DOMAIN result.distributions = DOMAIN BenchmarkOf(category)
    /\ \A b \in DOMAIN BenchmarkOf(category) :
          result.distributions[b].synthetic = BenchmarkOf(category)[b]

Cells(rle) == {rle[i].c : i \in DOMAIN rle}

\* A readable file whose age and years-of-service fields are numbers or
\* empty and whose postcode column holds text.
WellFormed(f) ==
    /\ f.readable
    /\ \A c \in {"Age", "YearsService"} \cap Range(f.columns) :
          \A cell \in Cells(f.data[c]) : cell.k # "str"
    /\ "Postcode" \in Range(f.columns) =>
          \E cell \in Cells(f.data["Postcode"]) : cell.k = "str"

\* ------------------------------------------------------------------------
\* C1
\* ------------------------------------------------------------------------

\* C1: for every categorical category, a result whose observed fractions
\* equal the benchmark's expected fractions on every bucket of the
\* benchmark has accuracy_score 1 and passes_test true.
C1_ExactMatchScoresOne ==
    IsReport =>
        \A category \in Categorical :
            LET result == returned.detailed_comparisons[category]
            IN  MatchesBenchmark(category, result) =>
                    result.accuracy_score = One /\ result.passes_test

\* A report in which age, gender, sector, status and service all match.
C1_Witness ==
    /\ IsReport
    /\ \A category \in Categorical \ {"geographic"} :
          MatchesBenchmark(category, returned.detailed_comparisons[category])

\* ------------------------------------------------------------------------
\* C2
\* ------------------------------------------------------------------------

\* C2: every accuracy value of a report lies in [0, 1]: each category's
\* accuracy (overall_accuracy for salary), each per-sector salary
\* accuracy_score, and overall_realism_score.
C2_AccuracyInUnitInterval ==
    IsReport =>
        /\ InUnit(returned.overall_realism_score)
        /\ \A category \in DOMAIN returned.detailed_comparisons :
              InUnit(Accuracy(returned.detailed_comparisons[category]))
        /\ LET analysis == returned.detailed_comparisons["salary"].sector_analysis
           IN  \A sector \in DOMAIN analysis : InUnit(analysis[sector].accuracy_score)

\* A report for a file whose Finance salaries lie so far above the
\* benchmark maximum that the raw sector accuracy is negative.
C2_Witness ==
    /\ IsReport
    /\ "Finance" \in DOMAIN returned.detailed_comparisons["salary"].sector_analysis
    /\ RatLt(sector_accuracy(LoadedFrame(file), "Finance"), Zero)
    /\ returned.detailed_comparisons["salary"].sector_analysis["Finance"].accuracy_score = Zero

\* ------------------------------------------------------------------------
\* C3, C4
\* ------------------------------------------------------------------------

\* The weighted average the specification describes: over the weighted
\* categories that are in the comparisons, each with its accuracy value.
WeightedAverage(comparisons) ==
    LET present == DOMAIN weights \cap DOMAIN comparisons
        total_weight == RatSum(weights, present)
    IN  IF present = {} THEN Zero
        ELSE RatDiv(RatSum([c \in present |->
                              RatMul(weights[c], Accuracy(comparisons[c]))], present),
                    total_weight)

\* C3: the overall score of a report is sum(weight * accuracy) / sum(weight)
\* over exactly the weighted categories present in its comparisons.
C3_OverallIsWeightedAverage ==
    IsReport =>
        returned.overall_realism_score = WeightedAverage(returned.detailed_comparisons)

\* The files that differ from f in the salary column only.
SalaryVariants(f) ==
    IF f.readable /\ "AnnualSalary" \in Range(f.columns)
    THEN {[f EXCEPT !.data["AnnualSalary"] = Profiles["AnnualSalary"][k]] :
             k \in DOMAIN Profiles["AnnualSalary"]}
    ELSE {}

\* C4: with the other category scores fixed, a change of the salary
\* accuracy changes the overall score by 0.25 times the change.
C4_SalaryWeighsQuarter ==
    IsReport =>
        \A g \in SalaryVariants(file) :
            LET other == compare_synthetic_vs_real(g)
            IN  ( /\ "error" \notin DOMAIN other
                  /\ \A c \in DOMAIN weights \ {"salary"} :
                        Accuracy(other.detailed_comparisons[c])
                            = Accuracy(returned.detailed_comparisons[c]) )
                => RatSub(other.overall_realism_score, returned.overall_realism_score)
                     = RatMul(Rat(25, 100),
                              RatSub(Accuracy(other.detailed_comparisons["salary"]),
                                     Accuracy(returned.detailed_comparisons["salary"])))

\* ------------------------------------------------------------------------
\* C5, C6
\* ------------------------------------------------------------------------

Synonyms(field) ==
    CASE field = "age" -> {"Age", "age", "Age_Years", "member_age"}
      [] field = "gender" -> {"Gender", "gender", "Gender_Code", "sex"}
      [] field = "sector" -> {"Sector", "sector", "Industry", "employment_sector"}
      [] field = "salary" ->
             {"AnnualSalary", "annual_salary", "Salary", "salary", "Annual_Salary"}
      [] field = "geographic" -> {"Postcode", "postcode", "PostCode", "postal_code"}
      [] field = "status" -> {"Status", "status", "Member_Status", "member_status"}
      [] field = "service" ->
             {"YearsService", "years_service", "Years_Service", "service_years"}

HasField(f, field) == Synonyms(field) \cap Range(f.columns) # {}

\* The fields a category's comparator reads.
Needs(category) == IF category = "salary" THEN {"salary", "sector"} ELSE {category}

\* A zero-score, failing result that carries a not-found marker.
ZeroFailingMarked(result) ==
    /\ Accuracy(result) = Zero
    /\ ~result.passes_test
    /\ "error" \in DOMAIN result

SectorAlone(f) ==
    /\ ~HasField(f, "sector")
    /\ \A field \in Range(CategoryOrder) \ {"sector"} : HasField(f, field)

\* C5 as stated: without a sector column and with every other field, the
\* sector result is zero, failing and marked "Sector column not found",
\* and age, gender, salary, geographic, status and service carry no
\* not-found marker.
C5_OnlySectorMarked ==
    (Called /\ WellFormed(file) /\ SectorAlone(file)) =>
        /\ IsReport
        /\ ZeroFailingMarked(returned.detailed_comparisons["sector"])
        /\ returned.detailed_comparisons["sector"].error = "Sector column not found"
        /\ \A category \in Range(CategoryOrder) \ {"sector"} :
              "error" \notin DOMAIN returned.detailed_comparisons[category]

\* C5 amended: the same, with salary, which reads the sector column too,
\* zero, failing and marked "Salary or sector column not found".
C5_SectorAndSalaryMarked ==
    (Called /\ WellFormed(file) /\ SectorAlone(file)) =>
        /\ IsReport
        /\ ZeroFailingMarked(returned.detailed_comparisons["sector"])
        /\ returned.detailed_comparisons["sector"].error = "Sector column not found"
        /\ ZeroFailingMarked(returned.detailed_comparisons["salary"])
        /\ returned.detailed_comparisons["salary"].error
              = "Salary or sector column not found"
        /\ \A category \in Range(CategoryOrder) \ {"sector", "salary"} :
              "error" \notin DOMAIN returned.detailed_comparisons[category]

\* A report for a file that lacks the sector column alone and whose age
\* result is computed from rows.
C5_Witness ==
    /\ IsReport /\ WellFormed(file) /\ SectorAlone(file)
    /\ RatGt(returned.detailed_comparisons["age"].accuracy_score, Zero)

\* C6: whatever columns a well-formed file lacks, the call returns a
\* report with an entry for each of the seven categories, and every
\* category one of whose fields is missing is zero, failing and marked.
C6_MissingColumnsDegrade ==
    (Called /\ WellFormed(file)) =>
        /\ IsReport
        /\ DOMAIN returned.detailed_comparisons = Range(CategoryOrder)
        /\ \A category \in Range(CategoryOrder) :
              (\E field \in Needs(category) : ~HasField(file, field)) =>
                  ZeroFailingMarked(returned.detailed_comparisons[category])

\* A report for a file that lacks the postcode column and another one, in
\* which a category that has its column is scored above zero.
C6_Witness ==
    /\ IsReport
    /\ ~HasField(file, "geographic") /\ ~HasField(file, "age")
    /\ HasField(file, "gender")
    /\ RatGt(returned.detailed_comparisons["gender"].accuracy_score, Zero)
    /\ ZeroFailingMarked(returned.detailed_comparisons["geographic"])

\* ------------------------------------------------------------------------
\* C7
\* ------------------------------------------------------------------------

\* The rows of the loaded frame that a category's distribution counts:
\* those left after the exclusion of empty, out-of-range and unmapped
\* values.
CountedRows(category, df) ==
    CASE category = "age" -> {i \in df.index : ~isna(age_bin(df)[i])}
      [] category = "gender" -> {i \in df.index : ~isna(df.col[gender_column(df)][i])}
      [] category = "sector" -> {i \in df.index : ~isna(df.col[sector_column(df)][i])}
      [] category = "salary" -> NumericRows(df, df.index, salary_column(df))
      [] category = "geographic" -> {i \in df.index : ~isna(region(df)[i])}
      [] category = "status" -> {i \in df.index : ~isna(df.col[status_column(df)][i])}
      [] category = "service" -> {i \in df.index : ~isna(service_bin(df)[i])}

\* C7: a category whose distribution has no row left after the exclusions
\* has accuracy 0 and passes_test false.
C7_NoRowsScoreZero ==
    IsReport =>
        \A category \in Range(CategoryOrder) :
            ( /\ \A field \in Needs(category) : HasField(file, field)
              /\ CountedRows(category, LoadedFrame(file)) = {} )
            => /\ Accuracy(returned.detailed_comparisons[category]) = Zero
               /\ ~returned.detailed_comparisons[category].passes_test

\* ------------------------------------------------------------------------
\* C8
\* ------------------------------------------------------------------------

\* A field of a numeric column that is no number: any text in the age and
\* years-of-service columns, any text but a currency-formatted amount in
\* the salary column.
Unparseable(column, cell) ==
    /\ column \in {"Age", "AnnualSalary", "YearsService"}
    /\ cell.k = "str"
    /\ ~(column = "AnnualSalary" /\ cell = Money(cell.v))

\* The file with every unparseable numeric field left empty.
Blanked(f) ==
    [f EXCEPT !.data =
        [c \in DOMAIN f.data |->
            [i \in DOMAIN f.data[c] |->
                IF Unparseable(c, f.data[c][i].c)
                THEN Run(NaNCell, f.data[c][i].n)
                ELSE f.data[c][i]]]]

\* C8: the comparison of a file with unparseable numeric fields does not
\* abort, and gives what it gives for the file with those fields empty.
C8_UnparseableIsMissing ==
    (Called /\ file.readable) => returned = compare_synthetic_vs_real(Blanked(file))

\* ------------------------------------------------------------------------
\* C9
\* ------------------------------------------------------------------------

\* C9: for a file that cannot be read or decoded the returned value has the
\* key "error" and none of overall_realism_score, detailed_comparisons and
\* recommendations.
C9_LoadFailureIsTopLevelError ==
    (Called /\ ~file.readable) =>
        /\ "error" \in DOMAIN returned
        /\ {"overall_realism_score", "detailed_comparisons", "recommendations"}
              \cap DOMAIN returned = {}

\* The call on an unreadable file has returned.
C9_Witness == Called /\ ~file.readable /\ "error" \in DOMAIN returned

\* ------------------------------------------------------------------------
\* C10
\* ------------------------------------------------------------------------

\* The total variation distance of a result: the sum over the benchmark's
\* buckets of |observed - expected|, a bucket the result does not list
\* having the observed fraction 0.
TotalVariation(category, result) ==
    LET real_dist == BenchmarkOf(category)
    IN  RatSum([b \in DOMAIN real_dist |->
                  RatAbs(RatSub(IF b \in DOMAIN result.distributions
                                THEN result.distributions[b].synthetic ELSE Zero,
                                real_dist[b]))],
               DOMAIN real_dist)

\* Of two results of one category, the one at the smaller (or equal)
\* distance has the greater (or equal) accuracy.
Monotone(category, a, b) ==
    ("error" \notin DOMAIN a /\ "error" \notin DOMAIN b) =>
        /\ RatLe(TotalVariation(category, a), TotalVariation(category, b))
              => RatGe(a.accuracy_score, b.accuracy_score)
        /\ RatLe(TotalVariation(category, b), TotalVariation(category, a))
              => RatGe(b.accuracy_score, a.accuracy_score)

\* The last two calls of the session both returned a report.
TwoReports ==
    /\ Called /\ calls >= 2
    /\ "error" \notin DOMAIN returned /\ "error" \notin DOMAIN previous

\* C10 as stated: in every categorical category, geography included, of
\* the distributions of two files the one at the smaller total variation
\* distance has the greater or equal accuracy.
C10_MonotoneEveryCategory ==
    TwoReports =>
        \A category \in Categorical :
            Monotone(category, previous.detailed_comparisons[category],
                     returned.detailed_comparisons[category])

\* C10 amended: the same for age, gender, sector, status and service.
C10_MonotoneButGeography ==
    TwoReports =>
        \A category \in Categorical \ {"geographic"} :
            Monotone(category, previous.detailed_comparisons[category],
                     returned.detailed_comparisons[category])

\* Two reports whose age distributions are both away from the benchmark,
\* the first strictly nearer to it and scored strictly higher.
C10_Witness ==
    /\ TwoReports
    /\ LET a == previous.detailed_comparisons["age"]
           b == returned.detailed_comparisons["age"]
       IN  /\ RatGt(TotalVariation("age", a), Zero)
           /\ RatLt(TotalVariation("age", a), TotalVariation("age", b))
           /\ RatGt(a.accuracy_score, b.accuracy_score)

\* ------------------------------------------------------------------------
\* C11, C12
\* ------------------------------------------------------------------------

\* The pass thresholds the claim lists.
Threshold(category) ==
    CASE category = "gender" -> Rat(9, 10)
      [] category = "status" -> Rat(8, 10)
      [] category = "age" -> Rat(8, 10)
      [] category = "sector" -> Rat(7, 10)
      [] category = "service" -> Rat(7, 10)
      [] category = "geographic" -> Rat(6, 10)

\* C11: in every categorical result passes_test is true exactly when
\* accuracy_score is strictly above the category's threshold, so a score
\* equal to the threshold does not pass.
C11_PassIsStrictlyAboveThreshold ==
    IsReport =>
        \A category \in Categorical :
            LET result == returned.detailed_comparisons[category]
            IN  result.passes_test <=> RatGt(result.accuracy_score, Threshold(category))

\* A report whose gender score is exactly the gender threshold 0.9, and
\* does not pass.
C11_Witness ==
    /\ IsReport
    /\ "error" \notin DOMAIN returned.detailed_comparisons["gender"]
    /\ returned.detailed_comparisons["gender"].accuracy_score = Rat(9, 10)
    /\ ~returned.detailed_comparisons["gender"].passes_test

\* The share of the rows of the frame with a value in the column that hold
\* the given value.
ObservedShare(df, column, value) ==
    LET rows == {i \in df.index : ~isna(df.col[column][i])}
    IN  Rat(Cardinality({i \in rows : df.col[column][i].s = value}), Cardinality(rows))

\* The gender fractions of the loaded file are exactly M m%, F f%, O o%.
GenderShares(f, m, w, o) ==
    /\ f.readable /\ "Gender" \in Range(f.columns)
    /\ LET df == LoadedFrame(f)
       IN  /\ df.index # {}
           /\ ObservedShare(df, "Gender", "M") = Rat(m, 100)
           /\ ObservedShare(df, "Gender", "F") = Rat(w, 100)
           /\ ObservedShare(df, "Gender", "O") = Rat(o, 100)

\* C12 as stated: gender fractions M 0.49, F 0.50, O 0.01 give the gender
\* result accuracy_score 1 and passes_test true.
C12_GeneratorSharesScoreOne ==
    (IsReport /\ GenderShares(file, 49, 50, 1)) =>
        /\ returned.detailed_comparisons["gender"].accuracy_score = One
        /\ returned.detailed_comparisons["gender"].passes_test

\* C12 amended: the benchmark is M 0.52, F 0.47, O 0.01, so those fractions
\* give accuracy_score 1, and M 0.49, F 0.50, O 0.01 give 0.97; both pass.
C12_BenchmarkSharesScoreOne ==
    /\ (IsReport /\ GenderShares(file, 49, 50, 1)) =>
           /\ returned.detailed_comparisons["gender"].accuracy_score = Rat(97, 100)
           /\ returned.detailed_comparisons["gender"].passes_test
    /\ (IsReport /\ GenderShares(file, 52, 47, 1)) =>
           /\ returned.detailed_comparisons["gender"].accuracy_score = One
           /\ returned.detailed_comparisons["gender"].passes_test

\* A report for a file whose gender fractions are M 0.49, F 0.50, O 0.01.
C12_Witness == IsReport /\ GenderShares(file, 49, 50, 1)

\* ------------------------------------------------------------------------
\* C13, C14
\* ------------------------------------------------------------------------

\* The loaded frame with the region of every row, as the geography
\* comparator derives it.
RegionFrame(f) == geographic_df(LoadedFrame(f))

\* The regions some row of the frame is mapped to.
ObservedRegions(df) ==
    {df.col["region"][i].s : i \in {j \in df.index : ~isna(df.col["region"][j])}}

\* C13 as stated: the geography score is max(0, 1 - d/2), d the sum over
\* every region of the benchmark of |observed - expected|, a region without
\* rows counting as observed 0.
C13_GeographyHalvesTotalDifference ==
    (IsReport /\ HasField(file, "geographic")) =>
        LET result == returned.detailed_comparisons["geographic"]
        IN  result.accuracy_score
              = PyMax0(RatSub(One, RatDiv(TotalVariation("geographic", result), RatInt(2))))

\* C13 amended: the geography score is max(0, 1 - d/n), d the sum of
\* |observed - expected| over the n regions that are both observed and in
\* the benchmark, the observed fraction taken among the mapped rows; it is
\* 0 when there is no such region.
C13_GeographyAveragesOverCommonRegions ==
    (IsReport /\ HasField(file, "geographic")) =>
        LET result == returned.detailed_comparisons["geographic"]
            real_dist == uk_benchmarks.geographic_distribution
            df == RegionFrame(file)
            common == ObservedRegions(df) \cap DOMAIN real_dist
            d == RatSum([r \in common |->
                           RatAbs(RatSub(ObservedShare(df, "region", r), real_dist[r]))],
                        common)
        IN  /\ DOMAIN result.distributions = common
            /\ result.accuracy_score
                 = IF common = {} THEN Zero
                   ELSE PyMax0(RatSub(One, RatDiv(d, RatInt(Cardinality(common)))))

\* A report whose geography covers some region and whose score is not the
\* halved total difference over the benchmark.
C13_Witness ==
    /\ IsReport /\ HasField(file, "geographic")
    /\ LET result == returned.detailed_comparisons["geographic"]
       IN  /\ DOMAIN result.distributions # {}
           /\ result.accuracy_score
                # PyMax0(RatSub(One, RatDiv(TotalVariation("geographic", result),
                                             RatInt(2))))

\* A postcode whose outward code is not in the prefix-to-region table.
Unmapped(cell) ==
    cell.k = "str" /\ (cell.p = <<>> \/ cell.p[1] \notin DOMAIN postcode_to_region)

\* The rows of the file whose postcode is unmapped.
UnmappedRows(f) ==
    LET post == Expand(f.data["Postcode"])
    IN  {i \in DOMAIN post : Unmapped(post[i])}

\* The number of rows a column holds before its k-th run.
RECURSIVE RowsBefore(_, _)
RowsBefore(rle, k) ==
    IF k = 1 THEN 0 ELSE RowsBefore(rle, k - 1) + rle[k - 1].n

\* The file with the rows of unmapped postcode removed: every run of every
\* column loses the removed rows that fall in it.
WithoutUnmapped(f) ==
    LET gone == UnmappedRows(f)
    IN  [f EXCEPT !.data =
            [c \in DOMAIN f.data |->
                LET rle == f.data[c]
                IN  [k \in DOMAIN rle |->
                        LET first == RowsBefore(rle, k) + 1
                            last == RowsBefore(rle, k) + rle[k].n
                        IN  Run(rle[k].c,
                                rle[k].n - Cardinality(gone \cap (first..last)))]]]

\* The file has a Postcode column, and rows are left once those of unmapped
\* postcode are removed, some postcode among them.
KeepsPostcodes(f) ==
    /\ f.readable /\ "Postcode" \in Range(f.columns)
    /\ LET post == Expand(f.data["Postcode"])
       IN  \E i \in DOMAIN post : post[i].k = "str" /\ ~Unmapped(post[i])

MirrorMedian(df, sector) ==
    LET column == salary_column(df)
        rows == NumericRows(df, sector_rows(df, sector), column)
        m == uk_benchmarks.salary_ranges[sector].median
        lo == KthSmallest(df, rows, column, 1)
        hi == KthSmallest(df, rows, column, Cardinality(rows))
    IN  [df EXCEPT !.col[column] =
            [i \in DOMAIN @ |->
                IF i \in rows /\ @[i].v \notin {lo, hi}
                THEN Num(2 * m - @[i].v) ELSE @[i]]]

\* The two frames have, in the sector, the same smallest and the same
\* greatest salary, and medians at the same distance d <= expected median
\* on either side of the expected median.
MediansMirrored(df, other, sector) ==
    LET column == salary_column(df)
        m == RatInt(uk_benchmarks.salary_ranges[sector].median)
        median == series_median(df, sector_rows(df, sector), column)
        mirrored == series_median(other, sector_rows(other, sector), column)
    IN  /\ NumericRows(df, sector_rows(df, sector), column) # {}
        /\ series_min(df, sector_rows(df, sector), column)
             = series_min(other, sector_rows(other, sector), column)
        /\ series_max(df, sector_rows(df, sector), column)
             = series_max(other, sector_rows(other, sector), column)
        /\ RatSub(median, m) = RatSub(m, mirrored)
        /\ RatLe(RatAbs(RatSub(median, m)), m)

\* C15: a sector whose median is d above the expected median and the same
\* sector with the median d below it, the minimum and the maximum being
\* the same, have the same per-sector salary accuracy.
C15_MedianErrorIsSymmetric ==
    IsReport =>
        LET analysis == returned.detailed_comparisons["salary"].sector_analysis
            df == LoadedFrame(file)
        IN  \A sector \in DOMAIN analysis :
                LET other == MirrorMedian(df, sector)
                IN  MediansMirrored(df, other, sector) =>
                        /\ sector_entry(other, sector).accuracy_score
                             = analysis[sector].accuracy_score
                        /\ sector_entry(other, sector).passes_test
                             = analysis[sector].passes_test

\* A report whose Finance median, 40000, is 5000 below the expected one,
\* mirrored by a median 5000 above it, the accuracy being below 1.
C15_Witness ==
    /\ IsReport
    /\ "Finance" \in DOMAIN returned.detailed_comparisons["salary"].sector_analysis
    /\ LET entry == returned.detailed_comparisons["salary"].sector_analysis["Finance"]
           df == LoadedFrame(file)
           other == MirrorMedian(df, "Finance")
       IN  /\ entry.synthetic_median = RatInt(40000)
           /\ MediansMirrored(df, other, "Finance")
           /\ sector_entry(other, "Finance").synthetic_median = RatInt(50000)
           /\ RatLt(entry.accuracy_score, One)
           /\ RatGt(entry.accuracy_score, Zero)

\* C16: the overall salary accuracy of a report is the mean of the
\* accuracy_score values reported in its sector_analysis.
C16_OverallIsMeanOfFloored ==
    IsReport =>
        LET salary == returned.detailed_comparisons["salary"]
            analysis == salary.sector_analysis
        IN  DOMAIN analysis # {} =>
                salary.overall_accuracy
                  = RatDiv(RatSum([s \in DOMAIN analysis |-> analysis[s].accuracy_score],
                                  DOMAIN analysis),
                           RatInt(Cardinality(DOMAIN analysis)))

\* ------------------------------------------------------------------------
\* C17
\* ------------------------------------------------------------------------

\* The band the claim gives an accuracy.
Band(accuracy) ==
    IF RatLt(accuracy, Rat(6, 10)) THEN "needs significant improvement"
    ELSE IF RatLt(accuracy, Rat(8, 10)) THEN "could be improved"
    ELSE "is realistic"

\* C17: the recommendations of a report hold exactly one entry for each of
\* the seven categories, its band the one of the category's accuracy.
C17_OneRecommendationPerCategory ==
    IsReport =>
        LET recs == returned.recommendations
        IN  /\ Len(recs) = Len(CategoryOrder)
            /\ \A category \in Range(CategoryOrder) :
                  /\ Cardinality({i \in DOMAIN recs : recs[i].category = category}) = 1
                  /\ \A i \in DOMAIN recs :
                        recs[i].category = category =>
                            recs[i].band
                              = Band(Accuracy(returned.detailed_comparisons[category]))

\* ------------------------------------------------------------------------
\* C18
\* ------------------------------------------------------------------------

\* Two reports with the same result in every category but service.
SameButService(a, b) ==
    \A category \in Range(CategoryOrder) \ {"service"} :
        a.detailed_comparisons[category] = b.detailed_comparisons[category]

\* C18: two reports that differ in the service result only have the same
\* overall_realism_score.
C18_ServiceHasNoWeight ==
    (TwoReports /\ SameButService(previous, returned)) =>
        previous.overall_realism_score = returned.overall_realism_score

\* Two reports equal in every category but service, whose service
\* accuracies differ.
C18_Witness ==
    /\ TwoReports /\ SameButService(previous, returned)
    /\ "service" \in DOMAIN returned.detailed_comparisons
    /\ previous.detailed_comparisons["service"].accuracy_score
         # returned.detailed_comparisons["service"].accuracy_score

\* ------------------------------------------------------------------------
\* C19
\* ------------------------------------------------------------------------

\* C19: the table passed to compare_age_distribution,
\* compare_geographic_distribution and compare_service_patterns has, after
\* the call, the columns and the cells it had before.
C19_ComparatorsLeaveTableAlone ==
    IsReport =>
        LET df == LoadedFrame(file)
        IN  /\ age_df(df) = df
            /\ geographic_df(df) = df
            /\ service_df(df) = df

\* ------------------------------------------------------------------------
\* C20
\* ------------------------------------------------------------------------

\* C20: whatever calls were made before on the instance, the value a call
\* returns is the one the call gives for its file on its own, and
\* uk_benchmarks is the table it was loaded as.
C20_CallsAreIndependent ==
    /\ uk_benchmarks = load_uk_pension_benchmarks
    /\ Called => returned = compare_synthetic_vs_real(file)

\* A second call that returns a report after a first call that failed,
\* and one after a first call that stored another report.
C20_Witness ==
    /\ Called /\ calls >= 2 /\ "error" \notin DOMAIN returned
    /\ \/ "error" \in DOMAIN previous
       \/ previous # returned

\* ------------------------------------------------------------------------
\* C21
\* ------------------------------------------------------------------------

\* The category scored from each column.
CategoryOf ==
    [ Age |-> "age", Gender |-> "gender", Sector |-> "sector",
      AnnualSalary |-> "salary", Postcode |-> "geographic",
      Status |-> "status", YearsService |-> "service" ]

\* The spellings a column is named with: the listed names, each of them in
\* upper and in lower case, and a name that is no synonym.
Spellings ==
    [ Age |-> {"Age", "AGE", "age", "Age_Years", "AGE_YEARS",
               "age_years", "member_age", "MEMBER_AGE", "DateOfBirth"},
      Gender |-> {"Gender", "GENDER", "gender", "Gender_Code",
                  "GENDER_CODE", "gender_code", "sex", "SEX", "Title"},
      Sector |-> {"Sector", "SECTOR", "sector", "Industry", "INDUSTRY",
                  "industry", "employment_sector", "EMPLOYMENT_SECTOR",
                  "Employer"},
      AnnualSalary |-> {"AnnualSalary", "ANNUALSALARY", "annualsalary",
                        "annual_salary", "ANNUAL_SALARY", "Salary", "SALARY",
                        "salary", "Annual_Salary", "Pay"},
      Postcode |-> {"Postcode", "POSTCODE", "postcode", "PostCode",
                    "postal_code", "POSTAL_CODE", "Address"},
      Status |-> {"Status", "STATUS", "status", "Member_Status",
                  "MEMBER_STATUS", "member_status", "State"},
      YearsService |-> {"YearsService", "YEARSSERVICE", "yearsservice",
                        "years_service", "YEARS_SERVICE", "Years_Service",
                        "service_years", "SERVICE_YEARS", "Tenure"} ]

\* str.lower() of a column name.
lower ==
    ("Title" :> "title") @@
    ("Employer" :> "employer") @@
    ("Pay" :> "pay") @@
    ("State" :> "state") @@
    ("Tenure" :> "tenure") @@
    ("AGE" :> "age") @@
    ("AGE_YEARS" :> "age_years") @@
    ("ANNUALSALARY" :> "annualsalary") @@
    ("ANNUAL_SALARY" :> "annual_salary") @@
    ("Address" :> "address") @@
    ("Age" :> "age") @@
    ("Age_Years" :> "age_years") @@
    ("AnnualSalary" :> "annualsalary") @@
    ("Annual_Salary" :> "annual_salary") @@
    ("DateOfBirth" :> "dateofbirth") @@
    ("EMPLOYMENT_SECTOR" :> "employment_sector") @@
    ("GENDER" :> "gender") @@
    ("GENDER_CODE" :> "gender_code") @@
    ("Gender" :> "gender") @@
    ("Gender_Code" :> "gender_code") @@
    ("INDUSTRY" :> "industry") @@
    ("Industry" :> "industry") @@
    ("MEMBER_AGE" :> "member_age") @@
    ("MEMBER_STATUS" :> "member_status") @@
    ("Member_Status" :> "member_status") @@
    ("POSTAL_CODE" :> "postal_code") @@
    ("POSTCODE" :> "postcode") @@
    ("PostCode" :> "postcode") @@
    ("Postcode" :> "postcode") @@
    ("SALARY" :> "salary") @@
    ("SECTOR" :> "sector") @@
    ("SERVICE_YEARS" :> "service_years") @@
    ("SEX" :> "sex") @@
    ("STATUS" :> "status") @@
    ("Salary" :> "salary") @@
    ("Sector" :> "sector") @@
    ("Status" :> "status") @@
    ("YEARSSERVICE" :> "yearsservice") @@
    ("YEARS_SERVICE" :> "years_service") @@
    ("YearsService" :> "yearsservice") @@
    ("Years_Service" :> "years_service") @@
    ("age" :> "age") @@
    ("age_years" :> "age_years") @@
    ("annual_salary" :> "annual_salary") @@
    ("annualsalary" :> "annualsalary") @@
    ("employment_sector" :> "employment_sector") @@
    ("gender" :> "gender") @@
    ("gender_code" :> "gender_code") @@
    ("industry" :> "industry") @@
    ("member_age" :> "member_age") @@
    ("member_status" :> "member_status") @@
    ("postal_code" :> "postal_code") @@
    ("postcode" :> "postcode") @@
    ("salary" :> "salary") @@
    ("sector" :> "sector") @@
    ("service_years" :> "service_years") @@
    ("sex" :> "sex") @@
    ("status" :> "status") @@
    ("years_service" :> "years_service") @@
    ("yearsservice" :> "yearsservice")


\* The file with the column renamed.
Rename(f, column, name) ==
    [ readable |-> f.readable,
      columns |-> [j \in DOMAIN f.columns |->
                      IF f.columns[j] = column THEN name ELSE f.columns[j]],
      data |-> [c \in (DOMAIN f.data \ {column}) \cup {name} |->
                  IF c = name THEN f.data[column] ELSE f.data[c]] ]

\* The file that follows the benchmark, one of its columns named with one
\* of the spellings.
RenamedFiles ==
    UNION {{Rename(MakeFile({}, [c |-> "MemberID", k |-> 1]), column, name) :
               name \in Spellings[column]} : column \in DOMAIN Spellings}

ColumnInit == file \in RenamedFiles /\ InitInstance /\ OnlyComparator

ColumnNext == CompareSyntheticVsReal

\* One call on a file one of whose columns is spelled another way.
ColumnSpec == ColumnInit /\ [][ColumnNext]_vars

\* The name is a letter-case variant of a listed synonym of the column.
CaseVariant(name, column) ==
    /\ name \in DOMAIN lower
    /\ lower[name] \in {lower[s] : s \in Synonyms(CategoryOf[column])}

\* The file's column named with a case variant of a synonym of the column.
SpelledColumns(f, column) ==
    {name \in Range(f.columns) : CaseVariant(name, column)}

\* C21: a column named with any letter-case variant of a listed synonym is
\* recognised: the category of a file that has such a column is scored, not
\* reported as "column not found".
C21_ColumnsMatchedWhateverTheCase ==
    IsReport =>
        \A column \in DOMAIN CategoryOf :
            SpelledColumns(file, column) # {} =>
                "error" \notin DOMAIN returned.detailed_comparisons[CategoryOf[column]]

\* What the code does: a category is scored exactly when the file has,
\* for every field the category's comparator reads, a column named as one
\* of the synonyms is written, letter case included.
C21_ColumnsMatchedAsWritten ==
    IsReport =>
        \A category \in Range(CategoryOrder) :
            ("error" \notin DOMAIN returned.detailed_comparisons[category])
                <=> \A field \in Needs(category) : HasField(file, field)

\* ------------------------------------------------------------------------
\* C25, C26
\* ------------------------------------------------------------------------

\* The ages and the years of service the bucketing is probed with run from
\* 0 to these.
MaxAge == 75

MaxService == 60

\* The benchmark file with half of its rows at the probed age and the
\* other half aged 35.
AgeFile(a) ==
    LET f == MakeFile({}, [c |-> "MemberID", k |-> 1])
    IN  [f EXCEPT !.data = [@ EXCEPT !["Age"] = <<Run(Num(a), 50), Run(Num(35), 50)>>]]

\* The benchmark file with half of its rows at the probed years of service
\* and the other half at 10 years.
ServiceFile(v) ==
    LET f == MakeFile({}, [c |-> "MemberID", k |-> 1])
    IN  [f EXCEPT !.data =
            [@ EXCEPT !["YearsService"] = <<Run(Num(v), 50), Run(Num(10), 50)>>]]

BucketFiles ==
    {AgeFile(a) : a \in 0..MaxAge} \cup {ServiceFile(v) : v \in 0..MaxService}

BucketInit == file \in BucketFiles /\ InitInstance /\ OnlyComparator

BucketNext == CompareSyntheticVsReal

\* One call on a file that probes one age or one length of service.
BucketSpec == BucketInit /\ [][BucketNext]_vars

\* The label whose written range holds the age, "" when none does.
AgeLabelOf(a) ==
    IF 22 <= a /\ a <= 29 THEN "22-29"
    ELSE IF 30 <= a /\ a <= 39 THEN "30-39"
    ELSE IF 40 <= a /\ a <= 49 THEN "40-49"
    ELSE IF 50 <= a /\ a <= 59 THEN "50-59"
    ELSE IF 60 <= a /\ a <= 67 THEN "60-67"
    ELSE ""

\* The label whose written range holds the years of service.
ServiceLabelOf(v) ==
    IF v <= 5 THEN "0-5"
    ELSE IF v <= 15 THEN "6-15"
    ELSE IF v <= 25 THEN "16-25"
    ELSE IF v <= 35 THEN "26-35"
    ELSE "36+"

\* The share of a bucket in a table half of whose rows belong to the bucket
\* own (to none when own is "") and the other half to the bucket anchor.
HalvesShare(bucket, own, anchor) ==
    IF own = "" THEN (IF bucket = anchor THEN One ELSE Zero)
    ELSE Rat((IF bucket = own THEN 1 ELSE 0) + (IF bucket = anchor THEN 1 ELSE 0), 2)

\* The observed shares the report gives for the category are those of the
\* two halves.
ReportsHalves(category, own, anchor) ==
    LET result == returned.detailed_comparisons[category]
    IN  \A bucket \in DOMAIN result.distributions :
            result.distributions[bucket].synthetic = HalvesShare(bucket, own, anchor)

\* C25: an integer age is counted in the bucket whose label's range holds
\* it, and an age outside 22..67 in no bucket and not in the denominator.
C25_AgeBucketsFollowLabels ==
    \A a \in 0..MaxAge :
        (IsReport /\ file = AgeFile(a)) => ReportsHalves("age", AgeLabelOf(a), "30-39")

\* What the code does: 21 is counted in '22-29' and 68 in '60-67'; any
\* other age is counted as its label says.
C25_AgeBucketsAsCut ==
    \A a \in 0..MaxAge :
        (IsReport /\ file = AgeFile(a)) =>
            ReportsHalves("age",
                          IF a = 21 THEN "22-29" ELSE IF a = 68 THEN "60-67"
                          ELSE AgeLabelOf(a),
                          "30-39")

\* C26: every non-negative number of years of service is counted in exactly
\* one of the five bins, 36 and more (above 50 as well) in '36+'.
C26_ServiceBucketsCoverEveryValue ==
    \A v \in 0..MaxService :
        (IsReport /\ file = ServiceFile(v)) =>
            ReportsHalves("service", ServiceLabelOf(v), "6-15")

\* What the code does: up to 50 years as the labels say, above 50 in no bin.
C26_ServiceBucketsAsCut ==
    \A v \in 0..MaxService :
        (IsReport /\ file = ServiceFile(v)) =>
            ReportsHalves("service", IF v > 50 THEN "" ELSE ServiceLabelOf(v), "6-15")

\* ------------------------------------------------------------------------
\* alpha_data_generatorv2.generate_pension_data (C27)
\* ------------------------------------------------------------------------

\* In the runs of another program the comparator is constructed and never
\* called.
ComparatorNotRun == file = Unreadable /\ InitInstance

CHUNK_SIZE == 50

\* The greatest number of records asked for.
MaxRecords == 120

Min(a, b) == IF a <= b THEN a ELSE b

\* The state on entry: chunks = [], current_id = 1.  requested lists the
\* calls of generate_chunk made so far, each with its start_id and
\* chunk_size; returned is the value returned, "none" until then.
generate_pension_data_entry(num_records) ==
    [ num_records |-> num_records,
      current_id |-> 1,
      chunks |-> <<>>,
      requested |-> <<>>,
      written |-> FALSE,
      returned |-> "none" ]

V2Init ==
    /\ generator_v2 \in {generate_pension_data_entry(n) : n \in 1..MaxRecords}
    /\ ComparatorNotRun
    /\ large_dataset = <<>> /\ demo_generator = <<>> /\ validator = <<>>

V2Unchanged ==
    UNCHANGED <<uk_benchmarks, file, pc, returned, comparison_results, calls,
                previous, large_dataset, demo_generator, validator>>

\* One turn of the while loop (lines 146-156): a chunk is asked for, and
\* either generate_chunk returns None and the function returns False, or
\* the chunk is kept and current_id moves on.
V2GenerateChunk ==
    /\ generator_v2 # <<>>
    /\ generator_v2.returned = "none"
    /\ generator_v2.current_id < generator_v2.num_records
    /\ LET chunk_size == Min(CHUNK_SIZE,
                             generator_v2.num_records - generator_v2.current_id + 1)
           request == [start_id |-> generator_v2.current_id, chunk_size |-> chunk_size]
       IN  \E chunk_data \in {"None", "csv"} :
               generator_v2' =
                   IF chunk_data = "None"
                   THEN [generator_v2 EXCEPT
                            !.requested = Append(@, request),
                            !.returned = "False"]
                   ELSE [generator_v2 EXCEPT
                            !.requested = Append(@, request),
                            !.chunks = Append(@, request),
                            !.current_id = @ + chunk_size]
    /\ V2Unchanged

\* The loop is left and the chunks are combined and written (lines 158-178):
\* True once the file is written, False when writing it raised.
V2Save ==
    /\ generator_v2 # <<>>
    /\ generator_v2.returned = "none"
    /\ ~(generator_v2.current_id < generator_v2.num_records)
    /\ \E saved \in BOOLEAN :
           generator_v2' = [generator_v2 EXCEPT
                               !.written = saved,
                               !.returned = IF saved THEN "True" ELSE "False"]
    /\ V2Unchanged

V2Next == V2GenerateChunk \/ V2Save

V2Spec == V2Init /\ [][V2Next]_vars

\* The sum of the chunk sizes of a list of requests.
RECURSIVE SizeSum(_)
SizeSum(requests) ==
    IF requests = <<>> THEN 0
    ELSE Head(requests).chunk_size + SizeSum(Tail(requests))

\* The requests start at first and each starts where the one before ended.
Consecutive(requests, first) ==
    \A k \in DOMAIN requests :
        requests[k].start_id = first + SizeSum(SubSeq(requests, 1, k - 1))

\* The loop was left with no chunk failed.
V2NoChunkFailed ==
    /\ generator_v2 # <<>>
    /\ generator_v2.returned # "none"
    /\ generator_v2.chunks = generator_v2.requested

\* C27: when no chunk fails, the chunk sizes asked for sum to num_records,
\* each is between 1 and CHUNK_SIZE, and the chunks start at consecutive
\* member ids from 1.
C27_ChunksCoverTheRequest ==
    V2NoChunkFailed =>
        /\ SizeSum(generator_v2.requested) = generator_v2.num_records
        /\ \A k \in DOMAIN generator_v2.requested :
              generator_v2.requested[k].chunk_size \in 1..CHUNK_SIZE
        /\ Consecutive(generator_v2.requested, 1)

\* What the code does: the sizes and the starts are as stated, but the
\* last record is never asked for when num_records is one more than a
\* multiple of CHUNK_SIZE.
C27_ChunksCoverButTheLast ==
    V2NoChunkFailed =>
        /\ SizeSum(generator_v2.requested) =
              IF generator_v2.num_records % CHUNK_SIZE = 1
              THEN generator_v2.num_records - 1 ELSE generator_v2.num_records
        /\ \A k \in DOMAIN generator_v2.requested :
              generator_v2.requested[k].chunk_size \in 1..CHUNK_SIZE
        /\ Consecutive(generator_v2.requested, 1)

\* ------------------------------------------------------------------------
\* alpha_data_generator.generate_large_dataset (C28, C29)
\* ------------------------------------------------------------------------

\* The greatest total_records and chunk_size the function is called with.
MaxTotal == 7

MaxChunkSize == 3

StartIds == {1, 1001}

\* The number of chunks with the division rounded down.
num_chunks_floor(total_records, chunk_size) == total_records \div chunk_size

\* num_chunks = (total_records + chunk_size - 1) // chunk_size
num_chunks(total_records, chunk_size) ==
    (total_records + chunk_size - 1) \div chunk_size

\* The clean-up removing only the file of the chunk that failed.
remove_temp_files_last(disk, temp_files) ==
    disk \ {temp_files[Len(temp_files)]}

\* for tf in temp_files: if os.path.exists(tf): os.remove(tf)
remove_temp_files(disk, temp_files) == disk \ Range(temp_files)

\* The state once the loop over the chunks is entered.  A temp file
\* temp_chunk_<n>.csv is held as n; disk is the set of those that exist,
\* requested the calls of generate_chunk made, failed the number of the
\* chunk whose generation failed (-1: none), combined the number of chunks
\* read into combined_df (-1: None), returned the value returned ("none"
\* until then).
generate_large_dataset_entry(total_records, start_id, chunk_size) ==
    [ total_records |-> total_records,
      start_id |-> start_id,
      chunk_size |-> chunk_size,
      num_chunks |-> num_chunks(total_records, chunk_size),
      chunk_num |-> 0,
      current_id |-> start_id,
      temp_files |-> <<>>,
      requested |-> <<>>,
      disk |-> {},
      failed |-> -1,
      merged |-> 0,
      combined |-> -1,
      output_written |-> FALSE,
      returned |-> "none" ]

LargeInit ==
    /\ large_dataset \in
          {generate_large_dataset_entry(t, s, c) :
              t \in 1..MaxTotal, s \in StartIds, c \in 1..MaxChunkSize}
    /\ ComparatorNotRun
    /\ generator_v2 = <<>> /\ demo_generator = <<>> /\ validator = <<>>

LargeUnchanged ==
    UNCHANGED <<uk_benchmarks, file, pc, returned, comparison_results, calls,
                previous, generator_v2, demo_generator, validator>>

\* One turn of the loop over the chunks (lines 260-281).  generate_chunk
\* returns True with the temp file written, or False with no file written
\* (the run failed, no response, an exception before the file is opened) or
\* with the file opened and the write failed; on False the temp files are
\* removed and the function returns False.
LargeGenerateChunk ==
    /\ large_dataset # <<>>
    /\ large_dataset.returned = "none"
    /\ large_dataset.chunk_num < large_dataset.num_chunks
    /\ LET d == large_dataset
           remaining_records == d.total_records - d.chunk_num * d.chunk_size
           current_chunk_size == Min(d.chunk_size, remaining_records)
           temp_files == Append(d.temp_files, d.chunk_num)
           request == [start_id |-> d.current_id, chunk_size |-> current_chunk_size]
       IN  \E outcome \in {"written", "nothing written", "write failed"} :
               large_dataset' =
                   IF outcome = "written"
                   THEN [d EXCEPT !.temp_files = temp_files,
                                  !.requested = Append(@, request),
                                  !.disk = @ \cup {d.chunk_num},
                                  !.current_id = @ + current_chunk_size,
                                  !.chunk_num = @ + 1]
                   ELSE [d EXCEPT !.temp_files = temp_files,
                                  !.requested = Append(@, request),
                                  !.failed = d.chunk_num,
                                  !.disk = remove_temp_files(
                                               IF outcome = "write failed"
                                               THEN d.disk \cup {d.chunk_num} ELSE d.disk,
                                               temp_files),
                                  !.returned = "False"]
    /\ LargeUnchanged

\* One turn of the loop that combines the chunks (lines 287-299): the temp
\* file is read, added to combined_df and removed; when reading it raises,
\* the temp files are removed and the function returns False.
LargeMergeChunk ==
    /\ large_dataset # <<>>
    /\ large_dataset.returned = "none"
    /\ large_dataset.chunk_num = large_dataset.num_chunks
    /\ large_dataset.merged < Len(large_dataset.temp_files)
    /\ LET d == large_dataset
           temp_file == d.temp_files[d.merged + 1]
       IN  \E outcome \in {"read", "raised"} :
               large_dataset' =
                   IF outcome = "read"
                   THEN [d EXCEPT !.combined = IF @ = -1 THEN 1 ELSE @ + 1,
                                  !.disk = @ \ {temp_file},
                                  !.merged = @ + 1]
                   ELSE [d EXCEPT !.disk = remove_temp_files(@, d.temp_files),
                                  !.returned = "False"]
    /\ LargeUnchanged

\* The combined table is saved (lines 301-308): True once written, False
\* when there is no table or when writing raised.
LargeSave ==
    /\ large_dataset # <<>>
    /\ large_dataset.returned = "none"
    /\ large_dataset.chunk_num = large_dataset.num_chunks
    /\ large_dataset.merged = Len(large_dataset.temp_files)
    /\ LET d == large_dataset
       IN  \E outcome \in {"saved", "raised"} :
               large_dataset' =
                   IF d.combined # -1 /\ outcome = "saved"
                   THEN [d EXCEPT !.output_written = TRUE, !.returned = "True"]
                   ELSE [d EXCEPT !.disk = remove_temp_files(@, d.temp_files),
                                  !.returned = "False"]
    /\ LargeUnchanged

LargeNext == LargeGenerateChunk \/ LargeMergeChunk \/ LargeSave

LargeSpec == LargeInit /\ [][LargeNext]_vars

\* The function runs on until it returns.
LargeFairSpec == LargeSpec /\ WF_vars(LargeNext)

LargeReturned == large_dataset # <<>> /\ large_dataset.returned # "none"

\* Every chunk was asked for and none failed.
LargeAllChunksGenerated ==
    /\ large_dataset # <<>>
    /\ large_dataset.failed = -1
    /\ large_dataset.chunk_num = large_dataset.num_chunks

\* The chunks asked for are ceil(total_records / chunk_size) in number,
\* each of 1..chunk_size records, total_records in all, each starting at
\* start_id plus the sizes of the chunks before it.
LargePartition ==
    LargeAllChunksGenerated =>
        LET d == large_dataset
        IN  /\ Len(d.requested) * d.chunk_size >= d.total_records
            /\ (Len(d.requested) - 1) * d.chunk_size < d.total_records
            /\ \A k \in DOMAIN d.requested :
                  d.requested[k].chunk_size \in 1..d.chunk_size
            /\ SizeSum(d.requested) = d.total_records
            /\ Consecutive(d.requested, d.start_id)

\* C28: when no chunk fails the chunks partition the request, and the
\* function always comes to its return.
C28_PartitionsAndTerminates == []LargePartition /\ <>LargeReturned

\* Three chunks were generated, the last one shorter than chunk_size, and
\* True was returned.
C28_Witness ==
    /\ LargeAllChunksGenerated
    /\ large_dataset.returned = "True"
    /\ Len(large_dataset.requested) = 3
    /\ large_dataset.requested[3].chunk_size < large_dataset.chunk_size

\* C29: once a chunk has failed the function has returned False, the
\* failed chunk is the last one asked for, no temp file is left and the
\* output file is not written; and after a True no temp file is left.
C29_FailureCleansUp ==
    /\ (large_dataset # <<>> /\ large_dataset.failed # -1) =>
          /\ large_dataset.returned = "False"
          /\ Len(large_dataset.requested) = large_dataset.failed + 1
          /\ large_dataset.disk = {}
          /\ ~large_dataset.output_written
    /\ (large_dataset # <<>> /\ large_dataset.returned = "True") =>
          large_dataset.disk = {}

\* The third chunk failed after two temp files were written.
C29_Witness ==
    /\ large_dataset # <<>>
    /\ large_dataset.failed = 2
    /\ large_dataset.returned = "False"

\* ------------------------------------------------------------------------
\* streamlit_demo.DemoPensionGenerator.generate_fund_allocations (C30)
\* ------------------------------------------------------------------------

\* self.fund_types
fund_types ==
    << [name |-> "Global Equity Fund", risk |-> "High"],
       [name |-> "UK Equity Fund", risk |-> "High"],
       [name |-> "Corporate Bond Fund", risk |-> "Medium"],
       [name |-> "Government Bond Fund", risk |-> "Low"],
       [name |-> "Property Fund", risk |-> "Medium"],
       [name |-> "Cash Fund", risk |-> "Low"],
       [name |-> "Diversified Growth Fund", risk |-> "Medium"] >>

\* The ages of the members: the youngest and the oldest generated, and the
\* ages on either side of the two limits the function tests.
MemberAges == {22, 34, 35, 49, 50, 67}

\* random.uniform(low, high), in hundredths: either end or the middle.
uniform(low, high) == {low, (low + high) \div 2, high}

\* random.randint(low, high): either end or the middle; no value (the call
\* raises ValueError) when the range is empty.
randint(low, high) ==
    IF low > high THEN {} ELSE {low, (low + high) \div 2, high}

\* random.sample(population, k): k different members, in any order.  Of the
\* samples with the same risk levels in the same order the one naming the
\* first funds of the list is taken.
sample(population, k) ==
    {s \in [1..k -> DOMAIN population] :
        \A j \in 1..k :
            /\ \A h \in 1..(j - 1) : s[h] # s[j]
            /\ \A g \in 1..(s[j] - 1) :
                  population[g].risk = population[s[j]].risk
                      => \E h \in 1..(j - 1) : s[h] = g}

\* The greatest percentage drawn with nothing kept back for the funds that
\* follow.
upper_percent_unreserved(max_percent, remaining_percent, funds_after) ==
    Min(max_percent, remaining_percent)

\* min(max_percent, remaining_percent - 5 * (len(selected_funds) - i - 1))
upper_percent(max_percent, remaining_percent, funds_after) ==
    Min(max_percent, remaining_percent - 5 * funds_after)

\* The state on entry, for a member of the age.  equity_weight is held in
\* hundredths (0 until drawn), selected_funds as places in fund_types, i is
\* the number of funds dealt with, drawn lists the bounds given to randint
\* for the percentages, returned is "none" until the function returns
\* ("list") or raises.
generate_fund_allocations_entry(age) ==
    [ age |-> age,
      equity_weight |-> 0,
      selected_funds |-> <<>>,
      i |-> 0,
      remaining_percent |-> 100,
      allocations |-> <<>>,
      drawn |-> <<>>,
      returned |-> "none" ]

DemoInit ==
    /\ demo_generator \in {generate_fund_allocations_entry(a) : a \in MemberAges}
    /\ ComparatorNotRun
    /\ generator_v2 = <<>> /\ large_dataset = <<>> /\ validator = <<>>

DemoUnchanged ==
    UNCHANGED <<uk_benchmarks, file, pc, returned, comparison_results, calls,
                previous, generator_v2, large_dataset, validator>>

\* Lines 207-224: the equity weight is drawn by age and two to four funds
\* are sampled.
DemoSelectFunds ==
    /\ demo_generator # <<>>
    /\ demo_generator.returned = "none"
    /\ demo_generator.selected_funds = <<>>
    /\ \E equity_weight \in
             IF demo_generator.age < 35 THEN uniform(60, 80)
             ELSE IF demo_generator.age < 50 THEN uniform(40, 60)
             ELSE uniform(20, 40) :
       \E num_funds \in 2..4 :
       \E selected_funds \in sample(fund_types, num_funds) :
           demo_generator' = [demo_generator EXCEPT
                                 !.equity_weight = equity_weight,
                                 !.selected_funds = selected_funds]
    /\ DemoUnchanged

\* One turn of the loop over the selected funds (lines 226-249); after the
\* last the list is returned.
DemoAllocate ==
    /\ demo_generator # <<>>
    /\ demo_generator.returned = "none"
    /\ demo_generator.selected_funds # <<>>
    /\ LET d == demo_generator
           n == Len(d.selected_funds)
           fund == fund_types[d.selected_funds[d.i + 1]]
           max_percent ==
               IF fund.risk = "High" THEN (d.equity_weight * 60) \div 100
               ELSE IF fund.risk = "Medium" THEN 40
               ELSE 30
           high == upper_percent(max_percent, d.remaining_percent, n - d.i - 1)
           allocation(percent) ==
               [ fund_name |-> fund.name,
                 allocation_percent |-> percent,
                 risk_level |-> fund.risk ]
       IN  IF d.i = n - 1
           THEN demo_generator' =
                    [d EXCEPT !.allocations = Append(@, allocation(d.remaining_percent)),
                              !.i = @ + 1,
                              !.returned = "list"]
           ELSE IF randint(5, high) = {}
           THEN demo_generator' =
                    [d EXCEPT !.drawn = Append(@, <<5, high>>),
                              !.returned = "ValueError"]
           ELSE \E percent \in randint(5, high) :
                    demo_generator' =
                        [d EXCEPT !.allocations = Append(@, allocation(percent)),
                                  !.drawn = Append(@, <<5, high>>),
                                  !.remaining_percent = @ - percent,
                                  !.i = @ + 1]
    /\ DemoUnchanged

DemoNext == DemoSelectFunds \/ DemoAllocate

DemoSpec == DemoInit /\ [][DemoNext]_vars

RECURSIVE PercentSum(_)
PercentSum(allocations) ==
    IF allocations = <<>> THEN 0
    ELSE Head(allocations).allocation_percent + PercentSum(Tail(allocations))

\* C30: every range given to the random draw is non-empty, so the function
\* does not raise; and the list it returns has two to four allocations, to
\* different funds, each of at least 5 percent, 100 percent in all.
C30_AllocationsSumToHundred ==
    demo_generator # <<>> =>
        LET d == demo_generator
        IN  /\ \A k \in DOMAIN d.drawn : d.drawn[k][1] = 5 /\ 5 <= d.drawn[k][2]
            /\ d.returned \in {"none", "list"}
            /\ d.returned = "list" =>
                  /\ Len(d.allocations) \in 2..4
                  /\ \A j, k \in DOMAIN d.allocations :
                        j # k => d.allocations[j].fund_name # d.allocations[k].fund_name
                  /\ \A k \in DOMAIN d.allocations :
                        d.allocations[k].allocation_percent >= 5
                  /\ PercentSum(d.allocations) = 100

\* Four allocations returned, each of the first three the most that could
\* be drawn.
C30_Witness ==
    /\ demo_generator # <<>>
    /\ demo_generator.returned = "list"
    /\ Len(demo_generator.allocations) = 4
    /\ \A k \in DOMAIN demo_generator.drawn :
          demo_generator.allocations[k].allocation_percent = demo_generator.drawn[k][2]

\* ------------------------------------------------------------------------
\* data_validator.PensionDataValidator (C22, C23, C24)
\* ------------------------------------------------------------------------
\* The validator matches member ids and postcodes against regular
\* expressions, slices postcodes and lower-cases job grades, so these
\* three columns hold their strings as sequences of characters.
Text(chars) == [k |-> "str", v |-> 0, s |-> "", p |-> chars]

UpperCase ==
    {"A", "B", "C", "D", "E", "F", "G", "H", "I", "J", "K", "L", "M",
     "N", "O", "P", "Q", "R", "S", "T", "U", "V", "W", "X", "Y", "Z"}

DecimalDigit == {"0", "1", "2", "3", "4", "5", "6", "7", "8", "9"}

DigitChar == <<"0", "1", "2", "3", "4", "5", "6", "7", "8", "9">>

RECURSIVE Power10(_)
Power10(e) == IF e = 0 THEN 1 ELSE 10 * Power10(e - 1)

\* f"MB{n:08d}", the form the generators ask for.
member_id(n) ==
    <<"M", "B">> \o [j \in 1..8 |-> DigitChar[((n \div Power10(8 - j)) % 10) + 1]]

\* str.lower() on the letters the job grades use.
LowerOf ==
    [A |-> "a", B |-> "b", C |-> "c", D |-> "d", E |-> "e", F |-> "f",
     G |-> "g", H |-> "h", I |-> "i", J |-> "j", K |-> "k", L |-> "l",
     M |-> "m", N |-> "n", O |-> "o", P |-> "p", Q |-> "q", R |-> "r",
     S |-> "s", T |-> "t", U |-> "u", V |-> "v", W |-> "w", X |-> "x",
     Y |-> "y", Z |-> "z"]

str_lower(chars) ==
    [j \in DOMAIN chars |->
        IF chars[j] \in UpperCase THEN LowerOf[chars[j]] ELSE chars[j]]

\* grade in job, for two str.
str_contains(sub, chars) ==
    \E j \in 0..(Len(chars) - Len(sub)) : SubSeq(chars, j + 1, j + Len(sub)) = sub

\* re.match(r'^MB\d{8}$', s)
member_id_match(chars) ==
    /\ Len(chars) = 10
    /\ chars[1] = "M"
    /\ chars[2] = "B"
    /\ \A j \in 3..10 : chars[j] \in DecimalDigit

\* re.match(r'^[A-Z]{1,2}\d[A-Z\d]? ?\d[A-Z]{2}$', s): one or two
\* letters, a digit, an optional letter or digit, an optional space, a
\* digit and two letters.
postcode_match(chars) ==
    \E letters \in 1..2, extra \in 0..1, space \in 0..1 :
        LET district == letters + 1 + extra
            inward   == district + space
        IN  /\ Len(chars) = inward + 3
            /\ \A j \in 1..letters : chars[j] \in UpperCase
            /\ chars[letters + 1] \in DecimalDigit
            /\ extra = 1 => chars[district] \in UpperCase \cup DecimalDigit
            /\ space = 1 => chars[inward] = " "
            /\ chars[inward + 1] \in DecimalDigit
            /\ chars[inward + 2] \in UpperCase
            /\ chars[inward + 3] \in UpperCase

\* The header the generators write.
ValidatorColumns ==
    {"MemberID", "Age", "Gender", "Postcode", "Sector", "JobGrade",
     "AnnualSalary", "YearsService", "Status"}

Rows == 1..100

\* The sector of each row of the tables below: the expected shares.
SectorOfRow(i) ==
    IF i <= 15 THEN "Finance"
    ELSE IF i <= 27 THEN "Manufacturing"
    ELSE IF i <= 45 THEN "Public Service"
    ELSE IF i <= 58 THEN "Healthcare"
    ELSE IF i <= 68 THEN "Education"
    ELSE IF i <= 76 THEN "Retail"
    ELSE "Other"

AgeOfRow(i) == IF i <= 40 THEN 30 ELSE IF i <= 80 THEN 50 ELSE 66

CityPostcodes ==
    << <<"L", "1", " ", "1", "A", "A">>, <<"M", "1", " ", "1", "A", "A">>, <<"B", "1", " ", "1", "A", "A">>, <<"S", "1", " ", "1", "A", "A">>, <<"N", "1", " ", "1", "A", "A">>, <<"E", "1", " ", "1", "A", "A">>,
       <<"W", "1", "A", " ", "1", "A", "A">>, <<"G", "1", "2", " ", "8", "Q", "Q">> >>

\* What a CSV may have wrong; each defect changes a few cells of a table
\* that passes every rule.
Defects ==
    {"duplicate_member_id", "malformed_postcode", "malformed_member_id",
     "gender_skew", "age_out_of_range", "age_not_a_number", "sector_skew",
     "salary_out_of_range", "service_at_age_minus_18",
     "service_at_age_minus_17", "service_at_age_minus_21",
     "invalid_status", "city_missing", "no_finance_grade",
     "no_public_grade", "empty_job_grade"}

\* The cell of a column at row i of the CSV with the defects D.
CellOf(column, i, D) ==
    CASE column = "MemberID" ->
            IF "duplicate_member_id" \in D /\ i = 60 THEN Text(member_id(1))
            ELSE IF "malformed_member_id" \in D /\ i = 7 THEN Text(<<"M", "B", "1", "2", "3">>)
            ELSE Text(member_id(i))
      [] column = "Age" ->
            IF "age_out_of_range" \in D /\ i = 3 THEN Num(80)
            ELSE IF "age_not_a_number" \in D /\ i = 4 THEN Str("unknown")
            ELSE Num(AgeOfRow(i))
      [] column = "Gender" ->
            IF "gender_skew" \in D \/ i <= 49 THEN Str("M")
            ELSE IF i <= 99 THEN Str("F")
            ELSE Str("O")
      [] column = "Postcode" ->
            IF "malformed_postcode" \in D /\ i = 9 THEN Text(<<"I", "N", "V", "A", "L", "I", "D">>)
            ELSE IF "city_missing" \in D /\ i % 8 = 0 THEN Text(CityPostcodes[1])
            ELSE Text(CityPostcodes[((i - 1) % 8) + 1])
      [] column = "Sector" ->
            IF "sector_skew" \in D /\ SectorOfRow(i) = "Other" THEN Str("Retail")
            ELSE Str(SectorOfRow(i))
      [] column = "JobGrade" ->
            IF SectorOfRow(i) = "Finance"
            THEN IF "empty_job_grade" \in D /\ i = 1 THEN NaNCell
                 ELSE IF "no_finance_grade" \in D THEN Text(<<"C", "l", "e", "r", "k">>)
                 ELSE Text(<<"S", "e", "n", "i", "o", "r", " ", "A", "n", "a", "l", "y", "s", "t">>)
            ELSE IF SectorOfRow(i) = "Public Service"
            THEN IF "no_public_grade" \in D THEN Text(<<"C", "l", "e", "r", "k">>)
                 ELSE Text(<<"E", "x", "e", "c", "u", "t", "i", "v", "e", " ", "O", "f", "f", "i", "c", "e", "r">>)
            ELSE Text(<<"S", "t", "a", "f", "f">>)
      [] column = "AnnualSalary" ->
            IF "salary_out_of_range" \in D /\ i = 2 THEN Num(10000)
            ELSE IF i = 20 THEN Money(45000)
            ELSE Num(40000)
      [] column = "YearsService" ->
            IF "service_at_age_minus_17" \in D /\ i = 11 THEN Num(AgeOfRow(i) - 17)
            ELSE IF "service_at_age_minus_18" \in D /\ i = 12 THEN Num(AgeOfRow(i) - 18)
            ELSE IF "service_at_age_minus_21" \in D /\ i = 13 THEN Num(AgeOfRow(i) - 21)
            ELSE Num(4)
      [] column = "Status" ->
            IF "invalid_status" \in D /\ i = 6 THEN Str("Retired")
            ELSE IF i <= 70 THEN Str("Active")
            ELSE IF i <= 90 THEN Str("Deferred")
            ELSE Str("Pensioner")

\* .astype(str), '£' and ',' removed, .str.strip(), then
\* pd.to_numeric(errors='coerce').
clean_numeric(c) ==
    IF c.k = "num" THEN c
    ELSE IF c.k = "str" /\ c.s = "£#,###" THEN Num(c.v)
    ELSE NaNCell

numeric_fields == {"Age", "AnnualSalary", "YearsService"}

\* PensionDataValidator(csv_file).data for the CSV with the given columns
\* and defects.
validator_data(columns, D) ==
    [ columns |-> columns,
      col     |-> [c \in columns |->
                     [i \in Rows |->
                        IF c \in numeric_fields THEN clean_numeric(CellOf(c, i, D))
                        ELSE CellOf(c, i, D)]] ]

MaxDefects == 2

\* The tables validated: every column and up to MaxDefects defects, or no
\* defect and one column missing.
ValidatorInputs ==
    {validator_data(ValidatorColumns, D) :
        D \in {S \in SUBSET Defects : Cardinality(S) <= MaxDefects}}
    \cup {validator_data(ValidatorColumns \ {c}, {}) : c \in ValidatorColumns}

\* value_counts(normalize=True).get(value, 0)
share(cells, value) ==
    LET counted == {i \in DOMAIN cells : ~isna(cells[i])}
        equal   == {i \in counted : cells[i] = Str(value)}
    IN  IF equal = {} THEN Zero ELSE Rat(Cardinality(equal), Cardinality(counted))

\* abs(dist.get(value, 0) - expected) < tolerance, in hundredths
near(cells, value, expected, tolerance) ==
    RatLt(RatAbs(RatSub(share(cells, value), Rat(expected, 100))),
          Rat(tolerance, 100))

\* Series.between(low, high) of one cell: False for NaN.
between(c, low, high) == c.k = "num" /\ low <= c.v /\ c.v <= high

expected_sector_dist ==
    [ Finance |-> 15, Manufacturing |-> 12, Healthcare |-> 13,
      Education |-> 10, Retail |-> 8, Other |-> 24 ]
    @@ ("Public Service" :> 18)

\* check_distributions.  value_counts(bins=[22,35,45,55,75]) has one
\* entry per bin whatever the ages, so its index size is always 4.
check_distributions(data) ==
    [ gender_distribution |->
        /\ near(data.col["Gender"], "M", 49, 5)
        /\ near(data.col["Gender"], "F", 50, 5)
        /\ near(data.col["Gender"], "O", 1, 1),
      age_distribution |->
        \A i \in Rows : between(data.col["Age"][i], 22, 75),
      sector_distribution |->
        \A sector \in DOMAIN expected_sector_dist :
            near(data.col["Sector"], sector, expected_sector_dist[sector], 5) ]

salary_rules ==
    [ Finance |-> <<25000, 120000>>, Manufacturing |-> <<18000, 75000>>,
      Healthcare |-> <<22000, 85000>> ]
    @@ ("Public Service" :> <<20000, 80000>>)

service_within_age_21(service, age) ==
    service.k = "num" /\ age.k = "num" /\ service.v <= age.v - 21

\* YearsService <= Age - 18 for one row: False when either is NaN.
service_within_age(service, age) ==
    service.k = "num" /\ age.k = "num" /\ service.v <= age.v - 18

valid_statuses == {"Active", "Deferred", "Pensioner"}

\* validate_business_rules
validate_business_rules(data) ==
    [ salary_ranges |->
        \A sector \in DOMAIN salary_rules :
            \A i \in Rows :
                data.col["Sector"][i] = Str(sector) =>
                    between(data.col["AnnualSalary"][i],
                            salary_rules[sector][1], salary_rules[sector][2]),
      service_years |->
        \A i \in Rows :
            service_within_age(data.col["YearsService"][i], data.col["Age"][i]),
      status_values |->
        \A i \in Rows : data.col["Status"][i] \in {Str(s) : s \in valid_statuses} ]

duplicated_neighbour(cells) ==
    {i \in DOMAIN cells : i > 1 /\ cells[i - 1] = cells[i]}

\* Series.duplicated(): the rows whose value an earlier row holds.
duplicated(cells) ==
    {i \in DOMAIN cells : \E j \in DOMAIN cells : j < i /\ cells[j] = cells[i]}

\* check_data_integrity
check_data_integrity(data) ==
    [ member_id_format |->
        \A i \in Rows : member_id_match(data.col["MemberID"][i].p),
      postcode_format |->
        \A i \in Rows : postcode_match(data.col["Postcode"][i].p),
      no_duplicates |-> duplicated(data.col["MemberID"]) = {} ]

major_cities == {"L", "M", "B", "S", "N", "E", "W", "G"}

\* .str[:2]
first_two(chars) == SubSeq(chars, 1, Min(2, Len(chars)))

\* validate_geographic_distribution
validate_geographic_distribution(data) ==
    LET postcode_areas == {first_two(data.col["Postcode"][i].p) : i \in Rows}
    IN  [ major_cities_covered |->
            \A city \in major_cities :
                \E area \in postcode_areas : area # <<>> /\ area[1] = city ]

finance_grades == { <<"A", "n", "a", "l", "y", "s", "t">>, <<"S", "e", "n", "i", "o", "r">>, <<"M", "a", "n", "a", "g", "e", "r">>, <<"D", "i", "r", "e", "c", "t", "o", "r">>, <<"C", "o", "n", "s", "u", "l", "t", "a", "n", "t">> }

public_grades == { <<"G", "r", "a", "d", "e">>, <<"O", "f", "f", "i", "c", "e", "r">>, <<"P", "r", "i", "n", "c", "i", "p", "a", "l">>, <<"S", "e", "n", "i", "o", "r">> }

\* any(grade.lower() in job.lower() for grade in grades)
grade_in_job(grades, job) ==
    \E grade \in grades : str_contains(str_lower(grade), str_lower(job.p))

\* The job grades any(...) looks at, in row order, for one sector: it
\* stops at the first job holding a grade.
jobs_looked_at(data, sector, grades) ==
    LET of_sector == {i \in Rows : data.col["Sector"][i] = Str(sector)}
        holds(i)  == data.col["JobGrade"][i].k = "str"
                     /\ grade_in_job(grades, data.col["JobGrade"][i])
    IN  {i \in of_sector : \A j \in of_sector : j < i => ~holds(j)}

\* job.lower() of an empty field, which read_csv gives as the float nan,
\* raises AttributeError.
sector_patterns_raise(data) ==
    \E i \in jobs_looked_at(data, "Finance", finance_grades)
             \cup jobs_looked_at(data, "Public Service", public_grades) :
        data.col["JobGrade"][i].k # "str"

\* validate_sector_patterns
validate_sector_patterns(data) ==
    [ finance_grades |->
        \E i \in jobs_looked_at(data, "Finance", finance_grades) :
            grade_in_job(finance_grades, data.col["JobGrade"][i]),
      public_service_grades |->
        \E i \in jobs_looked_at(data, "Public Service", public_grades) :
            grade_in_job(public_grades, data.col["JobGrade"][i]) ]

\* The checks of validate_all in call order: the key each stores its
\* results under and the columns it reads.
Checks ==
    << [ key |-> "distributions", reads |-> {"Gender", "Age", "Sector"} ],
       [ key |-> "business_rules",
         reads |-> {"Sector", "AnnualSalary", "YearsService", "Age", "Status"} ],
       [ key |-> "integrity", reads |-> {"MemberID", "Postcode"} ],
       [ key |-> "geographic", reads |-> {"Postcode"} ],
       [ key |-> "sector_patterns", reads |-> {"Sector", "JobGrade"} ] >>

\* The exception a check raises on the data, "" for none: self.data[name]
\* of a column the file lacks raises KeyError.
Raised(key, reads, data) ==
    IF ~(reads \subseteq data.columns) THEN "KeyError"
    ELSE IF key = "sector_patterns" /\ sector_patterns_raise(data)
    THEN "AttributeError"
    ELSE ""

\* round(x) of the non-negative n / d, ties to the even neighbour.
RoundHalfEven(n, d) ==
    LET q == n \div d
        r == n % d
    IN  IF 2 * r > d \/ (2 * r = d /\ q % 2 = 1) THEN q + 1 ELSE q

\* The checks print_summary gathers, each named by its category and key.
all_checks(validation_results) ==
    UNION {{<<category, check>> : check \in DOMAIN validation_results[category]} :
              category \in DOMAIN validation_results}

\* PensionDataValidator(csv_file): the table loaded, nothing validated.
validate_all_entry(data) ==
    [ data               |-> data,
      validation_results |-> <<>>,
      next_check         |-> 1,
      summary            |-> <<>>,
      raised             |-> "",
      pc                 |-> "checking" ]

ValidatorInit ==
    /\ ComparatorNotRun
    /\ generator_v2 = <<>>
    /\ large_dataset = <<>>
    /\ demo_generator = <<>>
    /\ \E data \in ValidatorInputs : validator = validate_all_entry(data)

ValidatorUnchanged ==
    UNCHANGED <<uk_benchmarks, file, pc, returned, comparison_results, calls,
                previous, generator_v2, large_dataset, demo_generator>>

\* One check method called by validate_all: an exception ends
\* validate_all, otherwise the results are stored under the check's key.
RunCheck(k, error, results) ==
    /\ validator # <<>>
    /\ validator.pc = "checking"
    /\ validator.next_check = k
    /\ validator' =
          IF error # ""
          THEN [validator EXCEPT !.raised = error, !.pc = "raised"]
          ELSE [validator EXCEPT
                   !.validation_results = @ @@ (Checks[k].key :> results),
                   !.next_check = k + 1,
                   !.pc = IF k = Len(Checks) THEN "summary" ELSE "checking"]
    /\ ValidatorUnchanged

CheckRaises(k) == Raised(Checks[k].key, Checks[k].reads, validator.data)

CheckDistributions ==
    RunCheck(1, CheckRaises(1), check_distributions(validator.data))

ValidateBusinessRules ==
    RunCheck(2, CheckRaises(2), validate_business_rules(validator.data))

CheckDataIntegrity ==
    RunCheck(3, CheckRaises(3), check_data_integrity(validator.data))

ValidateGeographicDistribution ==
    RunCheck(4, CheckRaises(4), validate_geographic_distribution(validator.data))

ValidateSectorPatterns ==
    RunCheck(5, CheckRaises(5), validate_sector_patterns(validator.data))

\* print_summary: the counts printed and the success rate as printed with
\* one decimal, held in tenths of a percent.
print_summary(validation_results) ==
    LET checks == all_checks(validation_results)
        total_checks  == Cardinality(checks)
        passed_checks ==
            Cardinality({c \in checks : validation_results[c[1]][c[2]]})
    IN  [ total_checks  |-> total_checks,
          passed_checks |-> passed_checks,
          failed        |-> total_checks - passed_checks,
          success_rate  |-> RoundHalfEven(passed_checks * 1000, total_checks) ]

PrintSummary ==
    /\ validator # <<>>
    /\ validator.pc = "summary"
    /\ validator' = [validator EXCEPT
                       !.summary = print_summary(validator.validation_results),
                       !.pc = "done"]
    /\ ValidatorUnchanged

ValidatorNext ==
    \/ CheckDistributions
    \/ ValidateBusinessRules
    \/ CheckDataIntegrity
    \/ ValidateGeographicDistribution
    \/ ValidateSectorPatterns
    \/ PrintSummary

ValidatorSpec == ValidatorInit /\ [][ValidatorNext]_vars

\* Every rule of the five groups, by category and key.
AllRules ==
    {<<"distributions", "gender_distribution">>,
     <<"distributions", "age_distribution">>,
     <<"distributions", "sector_distribution">>,
     <<"business_rules", "salary_ranges">>,
     <<"business_rules", "service_years">>,
     <<"business_rules", "status_values">>,
     <<"integrity", "member_id_format">>,
     <<"integrity", "postcode_format">>,
     <<"integrity", "no_duplicates">>,
     <<"geographic", "major_cities_covered">>,
     <<"sector_patterns", "finance_grades">>,
     <<"sector_patterns", "public_service_grades">>}

ValidateAllEnded == validator # <<>> /\ validator.pc \in {"done", "raised"}

FailedRules ==
    {c \in all_checks(validator.validation_results) :
        ~validator.validation_results[c[1]][c[2]]}

\* C22: for every input table, once validate_all has ended the
\* validation_results hold a true/false entry for each rule of all five
\* groups, whatever earlier rules evaluated to.  Violated: a table that
\* lacks a column a check reads, or whose first Finance row has an empty
\* JobGrade, ends validate_all with an exception and an incomplete report.
C22_EveryRuleEvaluated ==
    ValidateAllEnded =>
        /\ all_checks(validator.validation_results) = AllRules
        /\ \A c \in AllRules :
              validator.validation_results[c[1]][c[2]] \in BOOLEAN

\* What holds of validate_all: when no check raises, all twelve rules are
\* recorded, however many of them are false.
C22_EveryRuleEvaluatedUnlessRaised ==
    (validator # <<>> /\ validator.pc = "done") =>
        /\ all_checks(validator.validation_results) = AllRules
        /\ \A c \in AllRules :
              validator.validation_results[c[1]][c[2]] \in BOOLEAN

DuplicateAndPostcode ==
    validator_data(ValidatorColumns, {"duplicate_member_id", "malformed_postcode"})

\* C23: for the table that passes every rule but for one duplicated
\* member id and one malformed postcode, the failed rules are exactly
\* no_duplicates and postcode_format, passed + failed = total, and the
\* success rate printed is passed / total as a percentage to one decimal.
C23_TwoFailedRules ==
    (validator # <<>> /\ validator.pc = "done"
        /\ validator.data = DuplicateAndPostcode) =>
        /\ all_checks(validator.validation_results) = AllRules
        /\ FailedRules = {<<"integrity", "no_duplicates">>,
                          <<"integrity", "postcode_format">>}
        /\ validator.summary.failed = 2
        /\ validator.summary.passed_checks + validator.summary.failed
              = validator.summary.total_checks
        /\ 2 * AbsInt(validator.summary.success_rate * validator.summary.total_checks
                      - 1000 * validator.summary.passed_checks)
              <= validator.summary.total_checks

C23_Witness ==
    /\ validator # <<>>
    /\ validator.pc = "done"
    /\ validator.data = DuplicateAndPostcode
    /\ validator.summary.passed_checks = 10

BusinessRulesRecorded ==
    validator # <<>> /\ "business_rules" \in DOMAIN validator.validation_results

\* The rows whose YearsService is a number above Age - limit, or that
\* lack a number in either column.
ServiceBeyond(limit) ==
    {i \in Rows :
        \/ validator.data.col["YearsService"][i].k # "num"
        \/ validator.data.col["Age"][i].k # "num"
        \/ validator.data.col["YearsService"][i].v
              > validator.data.col["Age"][i].v - limit}

ServiceAt(limit) ==
    {i \in Rows :
        /\ validator.data.col["YearsService"][i].k = "num"
        /\ validator.data.col["Age"][i].k = "num"
        /\ validator.data.col["YearsService"][i].v
              = validator.data.col["Age"][i].v - limit}

====
